---- MODULE Spec2Model ----
(***************************************************************************)
(* Resilience core of trading-engine-py:                                   *)
(*   CircuitBreaker, BaseGrpcClient request pipeline and                   *)
(*   InterServiceClientManager (infrastructure/grpc_clients.py).           *)
(* asyncio is cooperative: a coroutine runs atomically between two awaits  *)
(* that really suspend, so every action below is one such atomic stretch.  *)
(***************************************************************************)
EXTENDS Integers, Sequences, FiniteSets, TLC

----------------------------------------------------------------------------
(* Bounds of the model *)

\* number of coroutines calling CircuitBreaker.call concurrently
NTasks == 2
\* cap on CircuitBreaker.total_calls
MaxCalls == 4
\* last instant of the clock (time.time(), in seconds)
MaxTime == 3
\* failure_threshold ranges over 1..MaxThreshold
MaxThreshold == 2
\* recovery_timeout ranges over 0..MaxRecovery
MaxRecovery == 2
\* number of coroutines inside one client's _make_request concurrently
NRequestTasks == 2
\* cap on BaseGrpcClient._total_requests
MaxRequests == 6
\* the client's clock advances in steps of ClientTickStep seconds ...
ClientTickStep == 30
\* ... up to MaxClientTime
MaxClientTime == 90
\* cap on _total_requests when every public operation is explored
MaxPublicRequests == 2
\* number of coroutines calling the manager's get_X_client concurrently
NGetTasks == 2
\* cap on the number of clients the manager constructs
MaxClients == 3
\* PerformanceMonitor: cap on the records since the last reset, on the size
\* of the request window and on a recorded duration
MaxRecords == 3
MaxWindowSize == 2
MaxDurationValue == 1
\* PerformanceMonitor: step and cap of its clock
PMTickStep == 40
MaxPMTime == 80
\* PerformanceMonitor: cap on the records of a burst
MaxBurst == 62
\* PerformanceMonitor: caps on the records, and on the failed ones among
\* them, when the health status is explored
MaxHealthRecords == 20
MaxFailures == 1
\* ConfigurationServiceClient: number of coroutines calling it, of values the
\* service holds for a key, cap on the cache TTL, on the calls of
\* get_configuration and on its clock
NConfigTasks == 2
MaxVersion == 2
MaxTTL == 1
MaxConfigCalls == 3
MaxConfigTime == 2
\* PrometheusMetricsAdapter: number of threads calling it and cap on the
\* calls of inc_counter, observe_histogram and set_gauge
NThreads == 2
MaxMetricCalls == 4

----------------------------------------------------------------------------
(* Program constants *)

CLOSED == "closed"
OPEN == "open"
HALF_OPEN == "half_open"
CircuitBreakerState == {CLOSED, OPEN, HALF_OPEN}

\* Optional[float] = None for the time stamps (every real time stamp is >= 0)
None == -1

Tasks == 1..NTasks
RequestTasks == 1..NRequestTasks
GetTasks == 1..NGetTasks
ConfigTasks == 1..NConfigTasks
Threads == 1..NThreads
\* the configuration keys asked for
Keys == {"trading.max_position_size"}
NoKey == ""
ClientIds == 1..MaxClients

CIRCUIT_BREAKER_FAILURE_THRESHOLD == 5
CIRCUIT_BREAKER_RECOVERY_TIMEOUT == 60
DEFAULT_GRPC_TIMEOUT == 30
DEFAULT_CACHE_TTL_SECONDS == 300
DEFAULT_RISK_MONITOR_PORT == 50054
\* PerformanceMonitor: default size of the request window, capacity of the
\* throughput window, and the period (seconds) the throughput window and
\* get_health_status look back
DEFAULT_WINDOW_SIZE == 1000
THROUGHPUT_WINDOW_MAXLEN == 60
THROUGHPUT_PERIOD == 60
HEALTH_PERIOD == 60
\* float('inf'), above every duration recorded
Infinity == 1000000
DEFAULT_TEST_COORDINATOR_PORT == 50053

\* the two specializations of BaseGrpcClient and their public operations
Services == {"risk-monitor", "test-coordinator"}
Methods(service) ==
    IF service = "risk-monitor"
      THEN {"health_check", "submit_strategy_status", "get_risk_metrics"}
      ELSE {"health_check", "submit_scenario_status", "report_chaos_event",
            "get_active_scenarios"}

VARIABLES
    \* CircuitBreaker fields
    state, failure_count, last_failure_time, last_success_time,
    total_calls, successful_calls, failed_calls,
    failure_threshold, recovery_timeout,
    \* time.time()
    now,
    \* coroutines inside CircuitBreaker.call: where each one is, the breaker
    \* state that admitted it and how its last invocation ended
    cb_pc, cb_admit, cb_out,
    \* history: invocations that raised since the last one that returned,
    \* invocations rejected while OPEN, units of work started
    consec, rejected, invoked,
    \* the operation that produced the current state, the coroutine that ran it
    \* and the breaker state it met
    last

VARIABLES
    \* BaseGrpcClient fields (the channel and the stub are set or None)
    service_name, _channel, _stub, cleanup_pc,
    _total_requests, _successful_requests, _failed_requests, _last_request_time,
    \* lifetime aggregates of the client's PerformanceMonitor
    pm_total_requests, pm_successful_requests, pm_failed_requests,
    pm_total_duration,
    \* the public operation exercised in this run
    method,
    \* coroutines inside _make_request: where each one is, its start_time and
    \* whether it came through the public method
    rq_pc, rq_start, rq_public,
    \* the invocation that the last step ended, if it ended one: whether
    \* _make_request was entered, whether it came through the public method,
    \* whether it met a connected client, what its unit of work produced and
    \* how _make_request (or the evaluation of its arguments) ended
    rq_last,
    \* number of timeouts completed in a row
    timeouts_in_a_row

VARIABLES
    \* InterServiceClientManager fields: whether a discovery collaborator is
    \* configured, the registry (a dict: the sequence of its entries
    \* [service, client] in insertion order) and the initialized flag
    service_discovery, _clients, _initialized,
    \* the clients the registry holds, by identity: service and whether the
    \* channel is open; the identity of the next client constructed
    instances, next_id,
    \* coroutines inside get_X_client: where each one is, its service and its
    \* use_fallback argument
    get_pc, get_service, get_use_fallback,
    \* the coroutine inside cleanup(): where it is, the client whose channel
    \* is closing, the position of the dict iterator, the dict size the
    \* iterator started with, and the clients registered at the call whose
    \* cleanup() it has not called yet
    mgr_cleanup_pc, iter_client, iter_pos, iter_size, cleanup_due,
    \* history since the last cleanup() step, per service: the clients
    \* returned, the client returned by the call that returned last (0: none)
    \* and the clients constructed
    returned, last_returned, built,
    \* history per coroutine inside get_X_client: `returned` and
    \* `last_returned` of its service as they were when its call was entered
    get_seen, get_prev,
    \* the manager operation that produced the current state; for a
    \* get_X_client that returned, also what its call had recorded at entry
    mgr_last

VARIABLES
    \* PerformanceMonitor fields next to the aggregate counters: the size of
    \* the request window, the window (RequestMetric entries, oldest first),
    \* the extreme durations, the time of the last record and the throughput
    \* window (timestamps, oldest first)
    window_size, _request_history, _min_duration, _max_duration,
    pm_last_request_time, _throughput_window,
    \* history: every record_request since construction or reset_metrics, in
    \* order; the monitor operation that produced the current state
    pm_recorded, pm_last

VARIABLES
    \* ConfigurationServiceClient fields: the TTL, the cache (per key an entry
    \* [value, expires_at] or NoEntry), the counters, whether the HTTP client
    \* exists
    _cache_ttl, _cache, cache_hits, _cache_misses, _client,
    \* the value the configuration service holds for each key
    served,
    \* coroutines inside get_configuration: where each one is, its key, and
    \* the value of the expired entry its call removed, if any
    cfg_pc, cfg_key, cfg_stale,
    \* where the coroutine inside cleanup() is
    cfg_cleanup_pc,
    \* history: the number of get_configuration calls so far and the
    \* operation that produced the current state
    cfg_calls, cfg_last

VARIABLES
    \* PrometheusMetricsAdapter fields: the three dicts of collectors by
    \* name, and the thread holding _lock (0 when free)
    _counters, _histograms, _gauges, _lock,
    \* the collectors registered in self.registry, in creation order (a
    \* collector is known by its position), and the updates applied to each
    registered, updates,
    \* threads inside inc_counter / observe_histogram / set_gauge: where each
    \* one is, the kind of metric, and the collector it obtained
    prom_thread,
    \* history: calls started, and calls completed per kind of metric
    prom_calls, prom_done

VARIABLES
    \* the component a behaviour with read operations exercises, and the
    \* read operation called last
    reader

cbVars == <<state, failure_count, last_failure_time, last_success_time,
            total_calls, successful_calls, failed_calls,
            failure_threshold, recovery_timeout>>
cbTaskVars == <<cb_pc, cb_admit, cb_out>>
cbHistVars == <<consec, rejected, invoked>>

clientVars == <<service_name, _channel, _stub, cleanup_pc,
                _total_requests, _successful_requests, _failed_requests,
                _last_request_time>>
pmVars == <<pm_total_requests, pm_successful_requests, pm_failed_requests,
            pm_total_duration>>
rqRunning == <<method, rq_pc, rq_start, rq_public, timeouts_in_a_row>>
rqVars == <<rqRunning, rq_last>>

mgrVars == <<service_discovery, _clients, _initialized, instances, next_id,
             get_pc, get_service, get_use_fallback,
             mgr_cleanup_pc, iter_client, iter_pos, iter_size, cleanup_due,
             returned, last_returned, built, get_seen, get_prev, mgr_last>>

pmWinVars == <<window_size, _request_history, _min_duration, _max_duration,
               pm_last_request_time, _throughput_window, pm_recorded, pm_last>>

cfgVars == <<_cache_ttl, _cache, cache_hits, _cache_misses, _client, served,
             cfg_pc, cfg_key, cfg_stale, cfg_cleanup_pc, cfg_calls, cfg_last>>

promVars == <<_counters, _histograms, _gauges, _lock, registered, updates,
              prom_thread, prom_calls, prom_done>>

\* what the breaker alone, and a client alone, leave untouched
notCBVars ==
    <<clientVars, pmVars, rqVars, mgrVars, pmWinVars, cfgVars, promVars, reader>>
notClientVars == <<mgrVars, pmWinVars, cfgVars, promVars, reader>>

vars == <<cbVars, now, cbTaskVars, cbHistVars, last, clientVars, pmVars, rqVars,
          mgrVars, pmWinVars, cfgVars, promVars, reader>>

----------------------------------------------------------------------------
(* CircuitBreaker *)

\* CircuitBreaker.__init__
CircuitBreakerInit(threshold, timeout) ==
    /\ failure_threshold = threshold
    /\ recovery_timeout = timeout
    /\ state = CLOSED
    /\ failure_count = 0
    /\ last_failure_time = None
    /\ last_success_time = None
    /\ total_calls = 0
    /\ successful_calls = 0
    /\ failed_calls = 0

\* mutant: strictly more than recovery_timeout must have elapsed
should_attempt_reset_strict ==
    /\ last_failure_time # None
    /\ now - last_failure_time > recovery_timeout

\* mutant: the recovery timeout runs from the last success
should_attempt_reset_since_success ==
    /\ last_success_time # None
    /\ now - last_success_time >= recovery_timeout

\* CircuitBreaker._should_attempt_reset
should_attempt_reset ==
    /\ last_failure_time # None
    /\ now - last_failure_time >= recovery_timeout

\* CircuitBreaker.call, up to the unit of work: total_calls += 1, then the
\* OPEN check; the call is rejected when call_rejects held before it
call_rejects ==
    state = OPEN /\ ~should_attempt_reset

\* mutant: a rejected call is not counted in total_calls
call_gate_uncounted_reject ==
    /\ total_calls' = IF call_rejects THEN total_calls ELSE total_calls + 1
    /\ state' = IF state = OPEN /\ should_attempt_reset THEN HALF_OPEN ELSE state
    /\ UNCHANGED <<failure_count, last_failure_time, last_success_time,
                   successful_calls, failed_calls,
                   failure_threshold, recovery_timeout>>

\* mutant: a rejected call restarts the recovery timeout
call_gate_reject_restarts_timeout ==
    /\ total_calls' = total_calls + 1
    /\ state' = IF state = OPEN /\ should_attempt_reset THEN HALF_OPEN ELSE state
    /\ last_failure_time' = IF call_rejects THEN now ELSE last_failure_time
    /\ UNCHANGED <<failure_count, last_success_time,
                   successful_calls, failed_calls,
                   failure_threshold, recovery_timeout>>

call_gate ==
    /\ total_calls' = total_calls + 1
    /\ state' = IF state = OPEN /\ should_attempt_reset THEN HALF_OPEN ELSE state
    /\ UNCHANGED <<failure_count, last_failure_time, last_success_time,
                   successful_calls, failed_calls,
                   failure_threshold, recovery_timeout>>

\* a success closes the breaker whatever its state
on_success_closes_always ==
    /\ successful_calls' = successful_calls + 1
    /\ last_success_time' = now
    /\ state' = CLOSED
    /\ failure_count' = 0
    /\ UNCHANGED <<last_failure_time, total_calls, failed_calls,
                   failure_threshold, recovery_timeout>>

\* mutant: closing the breaker leaves failure_count as it is
on_success_keeps_count ==
    /\ successful_calls' = successful_calls + 1
    /\ last_success_time' = now
    /\ state' = IF state = HALF_OPEN THEN CLOSED ELSE state
    /\ UNCHANGED <<failure_count, last_failure_time, total_calls, failed_calls,
                   failure_threshold, recovery_timeout>>

\* mutant: every success resets failure_count
on_success_resets_count ==
    /\ successful_calls' = successful_calls + 1
    /\ last_success_time' = now
    /\ state' = IF state = HALF_OPEN THEN CLOSED ELSE state
    /\ failure_count' = 0
    /\ UNCHANGED <<last_failure_time, total_calls, failed_calls,
                   failure_threshold, recovery_timeout>>

\* CircuitBreaker._on_success
on_success ==
    /\ successful_calls' = successful_calls + 1
    /\ last_success_time' = now
    /\ IF state = HALF_OPEN
         THEN state' = CLOSED /\ failure_count' = 0
         ELSE UNCHANGED <<state, failure_count>>
    /\ UNCHANGED <<last_failure_time, total_calls, failed_calls,
                   failure_threshold, recovery_timeout>>

\* mutant: the breaker opens only past the threshold
on_failure_past_threshold ==
    /\ failed_calls' = failed_calls + 1
    /\ failure_count' = failure_count + 1
    /\ last_failure_time' = now
    /\ state' = IF failure_count + 1 > failure_threshold THEN OPEN ELSE state
    /\ UNCHANGED <<last_success_time, total_calls, successful_calls,
                   failure_threshold, recovery_timeout>>

\* mutant: the breaker opens only when the count hits the threshold exactly
on_failure_exact_threshold ==
    /\ failed_calls' = failed_calls + 1
    /\ failure_count' = failure_count + 1
    /\ last_failure_time' = now
    /\ state' = IF failure_count + 1 = failure_threshold THEN OPEN ELSE state
    /\ UNCHANGED <<last_success_time, total_calls, successful_calls,
                   failure_threshold, recovery_timeout>>

\* mutant: a failure is not counted in failed_calls
on_failure_uncounted ==
    /\ failure_count' = failure_count + 1
    /\ last_failure_time' = now
    /\ state' = IF failure_count + 1 >= failure_threshold THEN OPEN ELSE state
    /\ UNCHANGED <<last_success_time, total_calls, successful_calls,
                   failed_calls, failure_threshold, recovery_timeout>>

\* CircuitBreaker._on_failure
on_failure ==
    /\ failed_calls' = failed_calls + 1
    /\ failure_count' = failure_count + 1
    /\ last_failure_time' = now
    /\ state' = IF failure_count + 1 >= failure_threshold THEN OPEN ELSE state
    /\ UNCHANGED <<last_success_time, total_calls, successful_calls,
                   failure_threshold, recovery_timeout>>

----------------------------------------------------------------------------
(* Coroutines calling CircuitBreaker.call with an arbitrary unit of work *)

\* call(): the stretch up to `await func(...)`, or up to the breaker-open raise
call_enter(t) ==
    /\ cb_pc[t] = "idle"
    /\ total_calls < MaxCalls
    /\ call_gate
    /\ IF call_rejects
         THEN /\ cb_out' = [cb_out EXCEPT ![t] = "rejected"]
              /\ rejected' = rejected + 1
              /\ consec' = consec + 1
              /\ last' = [op |-> "reject", task |-> t, from |-> state]
              /\ UNCHANGED <<cb_pc, cb_admit, invoked>>
         ELSE /\ cb_pc' = [cb_pc EXCEPT ![t] = "awaiting"]
              /\ cb_admit' = [cb_admit EXCEPT ![t] =
                                 IF state = OPEN THEN "trial" ELSE state]
              /\ cb_out' = [cb_out EXCEPT ![t] = "none"]
              /\ invoked' = invoked + 1
              /\ last' = [op |-> "admit", task |-> t, from |-> state]
              /\ UNCHANGED <<consec, rejected>>
    /\ UNCHANGED now

\* call(): `result = await func(...)` returned; _on_success(); return result
call_return(t) ==
    /\ cb_pc[t] = "awaiting"
    /\ on_success
    /\ cb_pc' = [cb_pc EXCEPT ![t] = "idle"]
    /\ cb_out' = [cb_out EXCEPT ![t] = "returned"]
    /\ consec' = 0
    /\ last' = [op |-> "success", task |-> t, from |-> state]
    /\ UNCHANGED <<cb_admit, rejected, invoked, now>>

\* call(): `await func(...)` raised; _on_failure(); raise
call_raise(t) ==
    /\ cb_pc[t] = "awaiting"
    /\ on_failure
    /\ cb_pc' = [cb_pc EXCEPT ![t] = "idle"]
    /\ cb_out' = [cb_out EXCEPT ![t] = "raised"]
    /\ consec' = consec + 1
    /\ last' = [op |-> "failure", task |-> t, from |-> state]
    /\ UNCHANGED <<cb_admit, rejected, invoked, now>>

\* the wall clock advances
Tick ==
    /\ now < MaxTime
    /\ now' = now + 1
    /\ last' = [op |-> "tick", task |-> 0, from |-> state]
    /\ UNCHANGED <<cbVars, cbTaskVars, cbHistVars>>

\* a client identity the registry does not hold: not constructed yet, or out
\* of the manager's reach
NoClient == [service |-> "None", channel |-> FALSE]

\* BaseGrpcClient.__init__ (the breaker and the clock aside)

NoInvocation ==
    [entered |-> FALSE, public |-> FALSE, met_connected |-> FALSE,
     uow |-> [type |-> "None"], out |-> [type |-> "None"]]

ClientInit(service, m) ==
    /\ service_name = service
    /\ method = m
    /\ _channel = FALSE
    /\ _stub = FALSE
    /\ cleanup_pc = "idle"
    /\ _total_requests = 0
    /\ _successful_requests = 0
    /\ _failed_requests = 0
    /\ _last_request_time = None
    /\ pm_total_requests = 0
    /\ pm_successful_requests = 0
    /\ pm_failed_requests = 0
    /\ pm_total_duration = 0
    /\ rq_pc = [t \in RequestTasks |-> "idle"]
    /\ rq_start = [t \in RequestTasks |-> None]
    /\ rq_public = [t \in RequestTasks |-> FALSE]
    /\ rq_last = NoInvocation
    /\ timeouts_in_a_row = 0

\* no read operation has been called
NoRead == [part |-> "none", op |-> "none"]

\* the kinds of metric and the name each is used under
Kinds == {"counter", "histogram", "gauge"}
MetricName(kind) ==
    CASE kind = "counter" -> "http_requests_total"
      [] kind = "histogram" -> "http_request_duration_seconds"
      [] OTHER -> "http_requests_in_flight"

\* a thread outside the adapter
NoThreadCall == [pc |-> "idle", kind |-> "none", got |-> 0]

\* PrometheusMetricsAdapter.__init__
PrometheusMetricsAdapterInit ==
    /\ _counters = [name \in {} |-> 0]
    /\ _histograms = [name \in {} |-> 0]
    /\ _gauges = [name \in {} |-> 0]
    /\ _lock = 0
    /\ registered = <<>>
    /\ updates = <<>>
    /\ prom_thread = [th \in Threads |-> NoThreadCall]
    /\ prom_calls = 0
    /\ prom_done = [kind \in Kinds |-> 0]

\* no cache entry, no value
NoEntry == [value |-> [value |-> 0, retrieved_at |-> None], expires_at |-> None]
NoValue == NoEntry.value

\* no operation of the configuration client has produced the current state
NoConfigOp ==
    [op |-> "none", key |-> NoKey, hit |-> FALSE,
     result |-> [type |-> "pending", value |-> NoValue, status_code |-> None],
     stale |-> NoValue]

\* ConfigurationServiceClient.__init__
ConfigurationServiceClientInit(ttl) ==
    /\ _cache_ttl = ttl
    /\ _cache = [k \in Keys |-> NoEntry]
    /\ cache_hits = 0
    /\ _cache_misses = 0
    /\ _client = FALSE
    /\ served = [k \in Keys |-> 1]
    /\ cfg_pc = [t \in ConfigTasks |-> "idle"]
    /\ cfg_key = [t \in ConfigTasks |-> NoKey]
    /\ cfg_stale = [t \in ConfigTasks |-> NoValue]
    /\ cfg_cleanup_pc = "idle"
    /\ cfg_calls = 0
    /\ cfg_last = NoConfigOp

\* no monitor operation has produced the current state, and reset_metrics
\* has not been called
NoMonitorOp == [op |-> "none", at |-> 0, was_reset |-> FALSE]

\* PerformanceMonitor.__init__, the fields next to the aggregate counters
PerformanceMonitorInit(size) ==
    /\ window_size = size
    /\ _request_history = <<>>
    /\ _min_duration = Infinity
    /\ _max_duration = 0
    /\ pm_last_request_time = None
    /\ _throughput_window = <<>>
    /\ pm_recorded = <<>>
    /\ pm_last = NoMonitorOp

\* no manager operation has produced the current state
NoEndpoint == [host |-> "None", port |-> 0]
\* no endpoint resolution has run: no use_fallback argument, no answer of the
\* discovery collaborator
NotAsked == [use_fallback |-> FALSE, answer |-> [type |-> "not asked"]]
NoManagerOp == [op |-> "none", task |-> 0, service |-> "None", client |-> 0,
                constructed |-> FALSE, endpoint |-> NoEndpoint,
                seen |-> {}, prev |-> 0, asked |-> NotAsked,
                uncleaned |-> {}]

\* InterServiceClientManager.__init__
ManagerInit(discovery) ==
    /\ service_discovery = discovery
    /\ _clients = <<>>
    /\ _initialized = FALSE
    /\ instances = [id \in ClientIds |-> NoClient]
    /\ next_id = 1
    /\ get_pc = [t \in GetTasks |-> "idle"]
    /\ get_service = [t \in GetTasks |-> "None"]
    /\ get_use_fallback = [t \in GetTasks |-> FALSE]
    /\ mgr_cleanup_pc = "idle"
    /\ iter_client = 0
    /\ iter_pos = 0
    /\ iter_size = 0
    /\ cleanup_due = {}
    /\ returned = [service \in Services |-> {}]
    /\ last_returned = [service \in Services |-> 0]
    /\ built = [service \in Services |-> {}]
    /\ get_seen = [t \in GetTasks |-> {}]
    /\ get_prev = [t \in GetTasks |-> 0]
    /\ mgr_last = NoManagerOp

InitCB ==
    /\ reader = NoRead
    /\ PrometheusMetricsAdapterInit
    /\ ConfigurationServiceClientInit(DEFAULT_CACHE_TTL_SECONDS)
    /\ PerformanceMonitorInit(DEFAULT_WINDOW_SIZE)
    /\ ManagerInit(FALSE)
    /\ ClientInit("risk-monitor", "health_check")
    /\ \E threshold \in 1..MaxThreshold, timeout \in 0..MaxRecovery :
           CircuitBreakerInit(threshold, timeout)
    /\ now = 0
    /\ cb_pc = [t \in Tasks |-> "idle"]
    /\ cb_admit = [t \in Tasks |-> "none"]
    /\ cb_out = [t \in Tasks |-> "none"]
    /\ consec = 0
    /\ rejected = 0
    /\ invoked = 0
    /\ last = [op |-> "init", task |-> 0, from |-> CLOSED]

NextCB ==
    \/ \E t \in Tasks : call_enter(t) /\ UNCHANGED notCBVars
    \/ \E t \in Tasks : call_return(t) /\ UNCHANGED notCBVars
    \/ \E t \in Tasks : call_raise(t) /\ UNCHANGED notCBVars
    \/ Tick /\ UNCHANGED notCBVars

\* a breaker shared by NTasks coroutines
SpecCB == InitCB /\ [][NextCB]_vars

----------------------------------------------------------------------------
(* BaseGrpcClient, RiskMonitorClient, CoordinatorGrpcClient *)

\* BaseGrpcClient.is_connected
is_connected == _channel /\ _stub

ServiceCommunicationError(message, service, operation, original_error) ==
    [type |-> "ServiceCommunicationError", message |-> message,
     service |-> service, operation |-> operation,
     original_error |-> original_error]

\* what `await asyncio.wait_for(request_func(...), timeout)` can produce: the
\* response, a gRPC error, a communication error raised by the unit of work
\* itself, any other exception, or the deadline
UowOutcomes ==
    {[type |-> "return", value |-> "response"],
     [type |-> "RpcError"],
     ServiceCommunicationError("unit of work", "None", "None", "None"),
     [type |-> "ValueError"],
     [type |-> "TimeoutError"]}

\* mutant: the deadline is not translated
execute_request_raw_timeout(outcome) ==
    outcome

\* BaseGrpcClient._execute_request
execute_request(outcome) ==
    IF outcome.type = "TimeoutError"
      THEN ServiceCommunicationError("Request timeout", service_name, "None", "None")
      ELSE outcome

\* mutant: only gRPC errors are wrapped, anything else is re-raised as it is
make_request_error_rpc_only(e, operation) ==
    IF e.type = "RpcError"
      THEN ServiceCommunicationError("gRPC call failed", service_name,
                                     operation, e.type)
      ELSE e

\* mutant: a communication error is wrapped again like any other exception
make_request_error_wraps_all(e, operation) ==
    IF e.type = "RpcError"
      THEN ServiceCommunicationError("gRPC call failed", service_name,
                                     operation, e.type)
      ELSE ServiceCommunicationError("Unexpected error", service_name,
                                     operation, e.type)

\* BaseGrpcClient._make_request, the error translation of the except branch
make_request_error(e, operation) ==
    IF e.type = "RpcError"
      THEN ServiceCommunicationError("gRPC call failed", service_name,
                                     operation, e.type)
      ELSE IF e.type = "ServiceCommunicationError"
        THEN e
        ELSE ServiceCommunicationError("Unexpected error", service_name,
                                       operation, e.type)

\* mutant: the monitor counts successful requests only
record_request_successes_only(duration, success) ==
    /\ pm_total_requests' = pm_total_requests + (IF success THEN 1 ELSE 0)
    /\ pm_total_duration' = pm_total_duration + duration
    /\ pm_successful_requests' = pm_successful_requests + (IF success THEN 1 ELSE 0)
    /\ pm_failed_requests' = pm_failed_requests

\* PerformanceMonitor.record_request: the lifetime aggregates
record_request(duration, success) ==
    /\ pm_total_requests' = pm_total_requests + 1
    /\ pm_total_duration' = pm_total_duration + duration
    /\ pm_successful_requests' = pm_successful_requests + (IF success THEN 1 ELSE 0)
    /\ pm_failed_requests' = pm_failed_requests + (IF success THEN 0 ELSE 1)

\* what a public method hands back: get_active_scenarios returns
\* response.get("scenarios", []), the others the response itself
public_result(m, r) ==
    IF m = "get_active_scenarios" /\ r.type = "return"
      THEN [type |-> "return", value |-> "scenarios"]
      ELSE r

\* what the caller of the invocation that just ended got
caller_outcome ==
    IF rq_last.public THEN public_result(method, rq_last.out) ELSE rq_last.out

\* the unit of work has not run past its deadline
within_deadline(t) ==
    now - rq_start[t] < DEFAULT_GRPC_TIMEOUT

\* mutant: the request is counted before the connection is made
make_request_counts_before_connect(t, public) ==
    /\ rq_pc[t] = "idle"
    /\ _total_requests < MaxRequests
    /\ \E connected \in (IF is_connected THEN {TRUE} ELSE BOOLEAN) :
         IF ~connected
           THEN /\ rq_last' = [entered |-> TRUE, public |-> public,
                               met_connected |-> is_connected,
                               uow |-> [type |-> "None"],
                               out |-> ServiceCommunicationError(
                                   "Failed to connect", service_name, "None",
                                   "Exception")]
                /\ timeouts_in_a_row' = 0
                /\ last' = [op |-> "end", task |-> 0, from |-> state]
                /\ _total_requests' = _total_requests + 1
                /\ _last_request_time' = now
                /\ UNCHANGED <<cbVars, pmVars, service_name, _channel, _stub,
                               cleanup_pc, _successful_requests,
                               _failed_requests,
                               method, rq_pc, rq_start, rq_public>>
           ELSE /\ _channel' = TRUE
                /\ _stub' = TRUE
                /\ _total_requests' = _total_requests + 1
                /\ _last_request_time' = now
                /\ call_gate
                /\ IF call_rejects
                     THEN /\ record_request(0, FALSE)
                          /\ _failed_requests' = _failed_requests + 1
                          /\ rq_last' = [entered |-> TRUE, public |-> public,
                                 met_connected |-> is_connected,
                                 uow |-> [type |-> "None"],
                                 out |-> make_request_error(
                                     ServiceCommunicationError(
                                         "Circuit breaker open", service_name,
                                         "None", "None"), method)]
                          /\ timeouts_in_a_row' = 0
                          /\ last' = [op |-> "end", task |-> 0, from |-> state]
                          /\ UNCHANGED <<rq_pc, rq_start, rq_public>>
                     ELSE /\ rq_pc' = [rq_pc EXCEPT ![t] = "awaiting"]
                          /\ rq_start' = [rq_start EXCEPT ![t] = now]
                          /\ rq_public' = [rq_public EXCEPT ![t] = public]
                          /\ last' = [op |-> "admit", task |-> 0, from |-> state]
                          /\ rq_last' = NoInvocation
                          /\ UNCHANGED <<pmVars, _failed_requests,
                                         timeouts_in_a_row>>
                /\ UNCHANGED <<service_name, cleanup_pc, _successful_requests,
                               method>>
    /\ UNCHANGED <<now, cbTaskVars, cbHistVars>>

\* _make_request up to `await` inside _execute_request, or up to the raise of
\* connect() or of the OPEN breaker.  connect() does not suspend; it fails
\* when grpc.aio.insecure_channel raises.
make_request_begin(t, public) ==
    /\ rq_pc[t] = "idle"
    /\ _total_requests < MaxRequests
    /\ \E connected \in (IF is_connected THEN {TRUE} ELSE BOOLEAN) :
         IF ~connected
           THEN /\ rq_last' = [entered |-> TRUE, public |-> public,
                               met_connected |-> is_connected,
                               uow |-> [type |-> "None"],
                               out |-> ServiceCommunicationError(
                                   "Failed to connect", service_name, "None",
                                   "Exception")]
                /\ timeouts_in_a_row' = 0
                /\ last' = [op |-> "end", task |-> 0, from |-> state]
                /\ UNCHANGED <<cbVars, pmVars, clientVars,
                               method, rq_pc, rq_start, rq_public>>
           ELSE /\ _channel' = TRUE
                /\ _stub' = TRUE
                /\ _total_requests' = _total_requests + 1
                /\ _last_request_time' = now
                /\ call_gate
                /\ IF call_rejects
                     THEN /\ record_request(0, FALSE)
                          /\ _failed_requests' = _failed_requests + 1
                          /\ rq_last' = [entered |-> TRUE, public |-> public,
                                 met_connected |-> is_connected,
                                 uow |-> [type |-> "None"],
                                 out |-> make_request_error(
                                     ServiceCommunicationError(
                                         "Circuit breaker open", service_name,
                                         "None", "None"), method)]
                          /\ timeouts_in_a_row' = 0
                          /\ last' = [op |-> "end", task |-> 0, from |-> state]
                          /\ UNCHANGED <<rq_pc, rq_start, rq_public>>
                     ELSE /\ rq_pc' = [rq_pc EXCEPT ![t] = "awaiting"]
                          /\ rq_start' = [rq_start EXCEPT ![t] = now]
                          /\ rq_public' = [rq_public EXCEPT ![t] = public]
                          /\ last' = [op |-> "admit", task |-> 0, from |-> state]
                          /\ rq_last' = NoInvocation
                          /\ UNCHANGED <<pmVars, _failed_requests,
                                         timeouts_in_a_row>>
                /\ UNCHANGED <<service_name, cleanup_pc, _successful_requests,
                               method>>
    /\ UNCHANGED <<now, cbTaskVars, cbHistVars>>

\* a direct _make_request(operation, request_func)
make_request(t) ==
    make_request_begin(t, FALSE)

\* a public method: `self._make_request(name, self._stub.<name>, ...)`; the
\* argument self._stub.<name> is evaluated before _make_request is entered
\* and raises AttributeError when _stub is None
public_method(t) ==
    IF _stub
      THEN make_request_begin(t, TRUE)
      ELSE /\ rq_pc[t] = "idle"
           /\ rq_last' = [entered |-> FALSE, public |-> TRUE,
                          met_connected |-> is_connected,
                          uow |-> [type |-> "None"],
                          out |-> [type |-> "AttributeError"]]
           /\ last' = [op |-> "end", task |-> 0, from |-> state]
           /\ UNCHANGED <<cbVars, now, cbTaskVars, cbHistVars, clientVars, pmVars,
                          method, rq_pc, rq_start, rq_public, timeouts_in_a_row>>

\* the unit of work of request t ends with `outcome`: the rest of
\* _execute_request, CircuitBreaker.call and _make_request
request_complete(t, outcome) ==
    /\ rq_pc[t] = "awaiting"
    /\ (outcome.type = "TimeoutError") = ~within_deadline(t)
    /\ LET r == execute_request(outcome)
           duration == now - rq_start[t]
       IN  IF r.type = "return"
             THEN /\ on_success
                  /\ record_request(duration, TRUE)
                  /\ _successful_requests' = _successful_requests + 1
                  /\ rq_last' = [entered |-> TRUE, public |-> rq_public[t],
                         met_connected |-> TRUE, uow |-> outcome, out |-> r]
                  /\ last' = [op |-> "end", task |-> 0, from |-> state]
                  /\ UNCHANGED _failed_requests
             ELSE /\ on_failure
                  /\ record_request(duration, FALSE)
                  /\ _failed_requests' = _failed_requests + 1
                  /\ rq_last' = [entered |-> TRUE, public |-> rq_public[t],
                         met_connected |-> TRUE, uow |-> outcome,
                         out |-> make_request_error(r, method)]
                  /\ last' = [op |-> "end", task |-> 0, from |-> state]
                  /\ UNCHANGED _successful_requests
    /\ rq_pc' = [rq_pc EXCEPT ![t] = "idle"]
    /\ rq_start' = [rq_start EXCEPT ![t] = None]
    /\ rq_public' = [rq_public EXCEPT ![t] = FALSE]
    /\ timeouts_in_a_row' =
           IF outcome.type = "TimeoutError" THEN timeouts_in_a_row + 1 ELSE 0
    /\ UNCHANGED <<now, cbTaskVars, cbHistVars, service_name, _channel, _stub,
                   cleanup_pc, _total_requests, _last_request_time, method>>

\* BaseGrpcClient.connect called by the application
connect(ok) ==
    /\ ~is_connected
    /\ _channel' = (_channel \/ ok)
    /\ _stub' = (_stub \/ ok)
    /\ last' = [op |-> "other", task |-> 0, from |-> state]
    /\ rq_last' = NoInvocation
    /\ UNCHANGED <<cbVars, now, cbTaskVars, cbHistVars, pmVars, rqRunning,
                   service_name, cleanup_pc, _total_requests,
                   _successful_requests, _failed_requests, _last_request_time>>

\* BaseGrpcClient.cleanup up to `await self._channel.close()`
cleanup_enter ==
    /\ cleanup_pc = "idle"
    /\ _channel
    /\ cleanup_pc' = "closing"
    /\ last' = [op |-> "other", task |-> 0, from |-> state]
    /\ rq_last' = NoInvocation
    /\ UNCHANGED <<cbVars, now, cbTaskVars, cbHistVars, pmVars, rqRunning,
                   service_name, _channel, _stub, _total_requests,
                   _successful_requests, _failed_requests, _last_request_time>>

\* BaseGrpcClient.cleanup after close(): the channel and the stub are dropped,
\* unless close() raised
cleanup_closed(ok) ==
    /\ cleanup_pc = "closing"
    /\ cleanup_pc' = "idle"
    /\ _channel' = (_channel /\ ~ok)
    /\ _stub' = (_stub /\ ~ok)
    /\ last' = [op |-> "other", task |-> 0, from |-> state]
    /\ rq_last' = NoInvocation
    /\ UNCHANGED <<cbVars, now, cbTaskVars, cbHistVars, pmVars, rqRunning,
                   service_name, _total_requests,
                   _successful_requests, _failed_requests, _last_request_time>>

\* the clock advances; wait_for fires its deadline before it advances further
ClientTick ==
    /\ now + ClientTickStep <= MaxClientTime
    /\ \A t \in RequestTasks : rq_pc[t] = "awaiting" => within_deadline(t)
    /\ now' = now + ClientTickStep
    /\ last' = [op |-> "other", task |-> 0, from |-> state]
    /\ rq_last' = NoInvocation
    /\ UNCHANGED <<cbVars, cbTaskVars, cbHistVars, clientVars, pmVars, rqRunning>>

InitClient ==
    /\ reader = NoRead
    /\ PrometheusMetricsAdapterInit
    /\ ConfigurationServiceClientInit(DEFAULT_CACHE_TTL_SECONDS)
    /\ PerformanceMonitorInit(DEFAULT_WINDOW_SIZE)
    /\ ManagerInit(FALSE)
    /\ ClientInit("risk-monitor", "health_check")
    /\ CircuitBreakerInit(CIRCUIT_BREAKER_FAILURE_THRESHOLD,
                          CIRCUIT_BREAKER_RECOVERY_TIMEOUT)
    /\ now = 0
    /\ cb_pc = [t \in Tasks |-> "idle"]
    /\ cb_admit = [t \in Tasks |-> "none"]
    /\ cb_out = [t \in Tasks |-> "none"]
    /\ consec = 0
    /\ rejected = 0
    /\ invoked = 0
    /\ last = [op |-> "init", task |-> 0, from |-> CLOSED]

NextClient ==
    \/ \E t \in RequestTasks : make_request(t) /\ UNCHANGED notClientVars
    \/ \E t \in RequestTasks : public_method(t) /\ UNCHANGED notClientVars
    \/ \E t \in RequestTasks : \E outcome \in UowOutcomes :
           request_complete(t, outcome) /\ UNCHANGED notClientVars
    \/ \E ok \in BOOLEAN : connect(ok) /\ UNCHANGED notClientVars
    \/ cleanup_enter /\ UNCHANGED notClientVars
    \/ \E ok \in BOOLEAN : cleanup_closed(ok) /\ UNCHANGED notClientVars
    \/ ClientTick /\ UNCHANGED notClientVars

\* one RiskMonitorClient used by NRequestTasks coroutines
SpecClient == InitClient /\ [][NextClient]_vars

\* every public operation of the two specializations
InitPublic ==
    /\ reader = NoRead
    /\ PrometheusMetricsAdapterInit
    /\ ConfigurationServiceClientInit(DEFAULT_CACHE_TTL_SECONDS)
    /\ PerformanceMonitorInit(DEFAULT_WINDOW_SIZE)
    /\ ManagerInit(FALSE)
    /\ \E service \in Services : \E m \in Methods(service) : ClientInit(service, m)
    /\ CircuitBreakerInit(CIRCUIT_BREAKER_FAILURE_THRESHOLD,
                          CIRCUIT_BREAKER_RECOVERY_TIMEOUT)
    /\ now = 0
    /\ cb_pc = [t \in Tasks |-> "idle"]
    /\ cb_admit = [t \in Tasks |-> "none"]
    /\ cb_out = [t \in Tasks |-> "none"]
    /\ consec = 0
    /\ rejected = 0
    /\ invoked = 0
    /\ last = [op |-> "init", task |-> 0, from |-> CLOSED]

NextPublic ==
    \/ \E t \in RequestTasks :
           _total_requests < MaxPublicRequests /\ public_method(t) /\ UNCHANGED notClientVars
    \/ \E t \in RequestTasks : \E outcome \in UowOutcomes :
           request_complete(t, outcome) /\ UNCHANGED notClientVars
    \/ \E ok \in BOOLEAN : connect(ok) /\ UNCHANGED notClientVars
    \/ cleanup_enter /\ UNCHANGED notClientVars
    \/ \E ok \in BOOLEAN : cleanup_closed(ok) /\ UNCHANGED notClientVars
    \/ ClientTick /\ UNCHANGED notClientVars

\* a RiskMonitorClient or CoordinatorGrpcClient used through one of its
\* public operations
SpecPublic == InitPublic /\ [][NextPublic]_vars

-----------------------------------------------------------------------------
(* InterServiceClientManager: the registry of clients, one per service.     *)
(* A coroutine runs without interruption between two awaits that really     *)
(* suspend: get_X_client suspends only inside service_discovery.get_service *)
(* and cleanup() only inside channel.close() of a client whose channel is   *)
(* open.                                                                     *)

\* the default port each get_X_client passes to _resolve_endpoint
DefaultPort(service) ==
    IF service = "risk-monitor" THEN DEFAULT_RISK_MONITOR_PORT
    ELSE DEFAULT_TEST_COORDINATOR_PORT

\* what service_discovery.get_service can do: return a ServiceInfo, return
\* None, or raise
DiscoveryAnswers ==
    {[type |-> "found", host |-> "discovered-host", grpc_port |-> 9090],
     [type |-> "None", host |-> "None", grpc_port |-> 0],
     [type |-> "raise", host |-> "None", grpc_port |-> 0]}

\* mutant: the collaborator is asked whatever use_fallback says
resolve_suspends_ignores_flag(use_fallback) == service_discovery

\* _resolve_endpoint: whether it awaits the discovery collaborator
resolve_suspends(use_fallback) == service_discovery /\ ~use_fallback

\* mutant: an exception of the discovery collaborator is not recovered; the
\* endpoint is left unresolved
resolve_endpoint_raise_propagates(service, default_port, use_fallback, answer) ==
    IF resolve_suspends(use_fallback) /\ answer.type = "found"
    THEN [host |-> answer.host, port |-> answer.grpc_port]
    ELSE IF resolve_suspends(use_fallback) /\ answer.type = "raise"
    THEN [host |-> "unresolved", port |-> 0]
    ELSE [host |-> "localhost", port |-> default_port]

\* _resolve_endpoint: the (host, port) it returns, given the collaborator's
\* answer when it was asked
resolve_endpoint(service, default_port, use_fallback, answer) ==
    IF resolve_suspends(use_fallback) /\ answer.type = "found"
    THEN [host |-> answer.host, port |-> answer.grpc_port]
    ELSE [host |-> "localhost", port |-> default_port]

\* positions of a service's entry in the dict
registry_index(service) ==
    {i \in 1..Len(_clients) : _clients[i].service = service}

\* mutant: the registry is never consulted
registry_has_never(service) == FALSE

\* `service in self._clients`
registry_has(service) == registry_index(service) # {}

\* self._clients[service]
registry_get(service) ==
    _clients[CHOOSE i \in registry_index(service) : TRUE].client

\* mutant: an existing entry is kept (first write wins)
registry_store_first_wins(service, id) ==
    IF registry_index(service) # {} THEN _clients
    ELSE Append(_clients, [service |-> service, client |-> id])

\* self._clients[service] = client: a new key is appended, an existing key
\* keeps its position and gets the new value
registry_store(service, id) ==
    IF registry_index(service) # {}
    THEN [i \in 1..Len(_clients) |->
            IF _clients[i].service = service
            THEN [service |-> service, client |-> id] ELSE _clients[i]]
    ELSE Append(_clients, [service |-> service, client |-> id])

\* the clients within the manager's reach: those of the registry and the one
\* cleanup() is closing
held(inst, registry, closing) ==
    [id \in ClientIds |->
        IF id = closing \/ \E i \in 1..Len(registry) : registry[i].client = id
        THEN inst[id] ELSE NoClient]

\* coroutines suspended in endpoint resolution
Resolving == {t \in GetTasks : get_pc[t] = "resolving"}

\* get_X_client returns client id to coroutine t, whose call had recorded
\* seen and prev at entry and constructed the client for endpoint, if any,
\* resolved from what `asked` holds
get_return(t, service, id, endpoint, seen, prev, asked) ==
    /\ get_pc' = [get_pc EXCEPT ![t] = "idle"]
    /\ get_service' = [get_service EXCEPT ![t] = "None"]
    /\ get_use_fallback' = [get_use_fallback EXCEPT ![t] = FALSE]
    /\ get_seen' = [get_seen EXCEPT ![t] = {}]
    /\ get_prev' = [get_prev EXCEPT ![t] = 0]
    /\ returned' = [returned EXCEPT ![service] = @ \cup {id}]
    /\ last_returned' = [last_returned EXCEPT ![service] = id]
    /\ mgr_last' = [op |-> "get", task |-> t, service |-> service,
                    client |-> id, constructed |-> endpoint # NoEndpoint,
                    endpoint |-> endpoint, seen |-> seen, prev |-> prev,
                    asked |-> asked, uncleaned |-> {}]

\* get_X_client, after the endpoint is resolved: construct the client, store
\* it in the registry and return it
get_construct(t, service, endpoint, seen, prev, asked) ==
    /\ next_id' = next_id + 1
    /\ built' = [built EXCEPT ![service] = @ \cup {next_id}]
    /\ _clients' = registry_store(service, next_id)
    /\ instances' = held([instances EXCEPT ![next_id] =
                             [service |-> service, channel |-> FALSE]],
                         _clients', iter_client)
    /\ get_return(t, service, next_id, endpoint, seen, prev, asked)

\* get_risk_monitor_client / get_test_coordinator_client, from the call to
\* the return or to the suspension inside _resolve_endpoint
get_client(t, service, use_fallback) ==
    /\ get_pc[t] = "idle"
    /\ registry_has(service) \/ next_id + Cardinality(Resolving) <= MaxClients
    /\ IF registry_has(service)
       THEN /\ get_return(t, service, registry_get(service), NoEndpoint,
                          returned[service], last_returned[service], NotAsked)
            /\ UNCHANGED <<_clients, instances, next_id, built>>
       ELSE IF resolve_suspends(use_fallback)
       THEN /\ get_pc' = [get_pc EXCEPT ![t] = "resolving"]
            /\ get_service' = [get_service EXCEPT ![t] = service]
            /\ get_use_fallback' = [get_use_fallback EXCEPT ![t] = use_fallback]
            /\ get_seen' = [get_seen EXCEPT ![t] = returned[service]]
            /\ get_prev' = [get_prev EXCEPT ![t] = last_returned[service]]
            /\ mgr_last' = [NoManagerOp EXCEPT !.op = "get_suspend",
                                               !.task = t, !.service = service]
            /\ UNCHANGED <<_clients, instances, next_id, built, returned,
                           last_returned>>
       ELSE get_construct(t, service,
                resolve_endpoint(service, DefaultPort(service), use_fallback,
                                 NotAsked.answer),
                returned[service], last_returned[service],
                [NotAsked EXCEPT !.use_fallback = use_fallback])
    /\ UNCHANGED <<service_discovery, _initialized, mgr_cleanup_pc,
                   iter_client, iter_pos, iter_size, cleanup_due>>

\* service_discovery.get_service answers and get_X_client runs to its return
get_resolved(t, answer) ==
    /\ get_pc[t] = "resolving"
    /\ get_construct(t, get_service[t],
            resolve_endpoint(get_service[t], DefaultPort(get_service[t]),
                             get_use_fallback[t], answer),
            get_seen[t], get_prev[t],
            [use_fallback |-> get_use_fallback[t], answer |-> answer])
    /\ UNCHANGED <<service_discovery, _initialized, mgr_cleanup_pc,
                   iter_client, iter_pos, iter_size, cleanup_due>>

\* InterServiceClientManager.initialize
initialize ==
    /\ _initialized' = TRUE
    /\ mgr_last' = [NoManagerOp EXCEPT !.op = "initialize"]
    /\ UNCHANGED <<service_discovery, _clients, instances, next_id, get_pc,
                   get_service, get_use_fallback, mgr_cleanup_pc,
                   iter_client, iter_pos, iter_size, cleanup_due, returned,
                   last_returned, built, get_seen, get_prev>>

\* BaseGrpcClient.connect on a client the registry holds: the channel is
\* created (cleanup() reads the channel of no other client)
mgr_connect(id) ==
    /\ \E i \in 1..Len(_clients) : _clients[i].client = id
    /\ ~instances[id].channel
    /\ instances' = [instances EXCEPT ![id].channel = TRUE]
    /\ mgr_last' = [NoManagerOp EXCEPT !.op = "connect", !.client = id]
    /\ UNCHANGED <<service_discovery, _clients, _initialized, next_id, get_pc,
                   get_service, get_use_fallback, mgr_cleanup_pc,
                   iter_client, iter_pos, iter_size, cleanup_due, returned,
                   last_returned, built, get_seen, get_prev>>

\* cleanup(): the first dict position at or after `from` whose client has an
\* open channel (0: none); the clients before it are cleaned up without
\* suspending
NextOpen(inst, from) ==
    LET open == {q \in from..Len(_clients) : inst[_clients[q].client].channel}
    IN  IF open = {} THEN 0 ELSE CHOOSE q \in open : \A r \in open : q <= r

\* a step of cleanup() voids what is known about earlier get_X_client calls
cleanup_history ==
    /\ returned' = [service \in Services |-> {}]
    /\ last_returned' = [service \in Services |-> 0]
    /\ built' = [service \in Services |-> {}]
    /\ get_seen' = [t \in GetTasks |-> {}]
    /\ get_prev' = [t \in GetTasks |-> 0]

\* cleanup(): the loop goes on from position `from`, to the next suspension
\* or to the end of cleanup()
cleanup_loop(inst, from, due) ==
    LET q == NextOpen(inst, from)
        called == {_clients[p].client :
                      p \in from..(IF q = 0 THEN Len(_clients) ELSE q)} IN
    IF q = 0
    THEN /\ _clients' = <<>>
         /\ _initialized' = FALSE
         /\ mgr_cleanup_pc' = "idle"
         /\ iter_client' = 0
         /\ iter_pos' = 0
         /\ iter_size' = 0
         /\ cleanup_due' = {}
         /\ mgr_last' = [NoManagerOp EXCEPT !.op = "cleanup_completed",
                                            !.uncleaned = due \ called]
    ELSE /\ mgr_cleanup_pc' = "closing"
         /\ iter_client' = _clients[q].client
         /\ iter_pos' = q
         /\ iter_size' = Len(_clients)
         /\ cleanup_due' = due \ called
         /\ mgr_last' = [NoManagerOp EXCEPT !.op = "cleanup_suspend"]
         /\ UNCHANGED <<_clients, _initialized>>

\* cleanup(), from the call to its first suspension or to its end
mgr_cleanup_enter ==
    /\ mgr_cleanup_pc = "idle"
    /\ cleanup_loop(instances, 1,
                    {_clients[p].client : p \in 1..Len(_clients)})
    /\ instances' = held(instances, _clients', iter_client')
    /\ cleanup_history
    /\ UNCHANGED <<service_discovery, next_id, get_pc, get_service,
                   get_use_fallback>>

\* BaseGrpcClient.cleanup of the client cleanup() is closing, from the end of
\* channel.close() on
closed(ok) == [instances EXCEPT ![iter_client].channel = ~ok]

\* cleanup(), from the end of channel.close() on: close() returned (the client
\* drops its channel) or raised (the error is logged); the dict iterator
\* raises RuntimeError when the dict changed size meanwhile, and cleanup()
\* ends there without clearing the registry
mgr_cleanup_closed(ok) ==
    /\ mgr_cleanup_pc = "closing"
    /\ IF Len(_clients) # iter_size
       THEN /\ mgr_cleanup_pc' = "idle"
            /\ iter_client' = 0
            /\ iter_pos' = 0
            /\ iter_size' = 0
            /\ cleanup_due' = {}
            /\ mgr_last' = [NoManagerOp EXCEPT !.op = "cleanup_RuntimeError",
                                               !.uncleaned = cleanup_due]
            /\ UNCHANGED <<_clients, _initialized>>
       ELSE cleanup_loop(closed(ok), iter_pos + 1, cleanup_due)
    /\ instances' = held(closed(ok), _clients', iter_client')
    /\ cleanup_history
    /\ UNCHANGED <<service_discovery, next_id, get_pc, get_service,
                   get_use_fallback>>

InitMgr ==
    /\ reader = NoRead
    /\ PrometheusMetricsAdapterInit
    /\ ConfigurationServiceClientInit(DEFAULT_CACHE_TTL_SECONDS)
    /\ PerformanceMonitorInit(DEFAULT_WINDOW_SIZE)
    /\ \E discovery \in BOOLEAN : ManagerInit(discovery)
    /\ ClientInit("risk-monitor", "health_check")
    /\ CircuitBreakerInit(CIRCUIT_BREAKER_FAILURE_THRESHOLD,
                          CIRCUIT_BREAKER_RECOVERY_TIMEOUT)
    /\ now = 0
    /\ cb_pc = [t \in Tasks |-> "idle"]
    /\ cb_admit = [t \in Tasks |-> "none"]
    /\ cb_out = [t \in Tasks |-> "none"]
    /\ consec = 0
    /\ rejected = 0
    /\ invoked = 0
    /\ last = [op |-> "init", task |-> 0, from |-> CLOSED]

notMgrVars ==
    <<cbVars, now, cbTaskVars, cbHistVars, last, clientVars, pmVars, rqVars,
      pmWinVars, cfgVars, promVars, reader>>

NextMgr ==
    \/ \E t \in GetTasks : \E service \in Services : \E use_fallback \in BOOLEAN :
           get_client(t, service, use_fallback) /\ UNCHANGED notMgrVars
    \/ \E t \in GetTasks : \E answer \in DiscoveryAnswers :
           get_resolved(t, answer) /\ UNCHANGED notMgrVars
    \/ initialize /\ UNCHANGED notMgrVars
    \/ \E id \in ClientIds : mgr_connect(id) /\ UNCHANGED notMgrVars
    \/ mgr_cleanup_enter /\ UNCHANGED notMgrVars
    \/ \E ok \in BOOLEAN : mgr_cleanup_closed(ok) /\ UNCHANGED notMgrVars

\* an InterServiceClientManager used by concurrent coroutines
SpecMgr == InitMgr /\ [][NextMgr]_vars

-----------------------------------------------------------------------------
(* PerformanceMonitor: lifetime aggregates, the bounded request window and  *)
(* the throughput window. Durations and timestamps are whole numbers; a     *)
(* quotient is kept as the pair of its numerator and denominator. The two   *)
(* clock readings of one record_request are the same instant.               *)

Durations == -1..MaxDurationValue

RequestMetric(timestamp, duration, success, operation) ==
    [timestamp |-> timestamp, duration |-> duration, success |-> success,
     operation |-> operation]

\* PerformanceMetrics(): the defaults of the dataclass
PerformanceMetrics ==
    [total_requests |-> 0, successful_requests |-> 0, failed_requests |-> 0,
     average_response_time |-> [num |-> 0, den |-> 1],
     min_response_time |-> Infinity, max_response_time |-> 0,
     last_request_time |-> None,
     throughput_per_second |-> [num |-> 0, den |-> 1]]

\* mutant: the deque is not bounded
deque_append_unbounded(q, maxlen, x) == Append(q, x)

\* deque(maxlen).append: the oldest entry goes when the deque is full
deque_append(q, maxlen, x) ==
    IF maxlen = 0 THEN q
    ELSE IF Len(q) >= maxlen THEN Append(Tail(q), x) ELSE Append(q, x)

RECURSIVE popleft_while_older(_, _)
\* _update_throughput: popleft() while the head is older than the cutoff
popleft_while_older(q, cutoff_time) ==
    IF q # <<>> /\ Head(q) < cutoff_time
    THEN popleft_while_older(Tail(q), cutoff_time) ELSE q

\* mutant: old timestamps are never dropped
update_throughput_no_prune(current_time) ==
    deque_append(_throughput_window, THROUGHPUT_WINDOW_MAXLEN, current_time)

\* PerformanceMonitor._update_throughput: the throughput window afterwards
update_throughput(current_time) ==
    popleft_while_older(
        deque_append(_throughput_window, THROUGHPUT_WINDOW_MAXLEN, current_time),
        current_time - THROUGHPUT_PERIOD)

\* PerformanceMonitor.record_request, windows and extremes included
pm_record_request(duration, success, operation) ==
    /\ record_request(duration, success)
    /\ _request_history' = deque_append(_request_history, window_size,
            RequestMetric(now, duration, success, operation))
    /\ pm_last_request_time' = now
    /\ _min_duration' = IF duration < _min_duration THEN duration
                        ELSE _min_duration
    /\ _max_duration' = IF duration > _max_duration THEN duration
                        ELSE _max_duration
    /\ _throughput_window' = update_throughput(now)
    /\ pm_recorded' = Append(pm_recorded,
            RequestMetric(now, duration, success, operation))
    /\ pm_last' = [op |-> "record", at |-> now, was_reset |-> pm_last.was_reset]
    /\ UNCHANGED <<window_size, now>>

\* mutant: the extremes survive a reset
reset_metrics_keeps_extremes ==
    /\ _request_history' = <<>>
    /\ _throughput_window' = <<>>
    /\ pm_total_requests' = 0
    /\ pm_successful_requests' = 0
    /\ pm_failed_requests' = 0
    /\ pm_total_duration' = 0
    /\ pm_last_request_time' = None
    /\ pm_recorded' = <<>>
    /\ pm_last' = [op |-> "reset", at |-> now, was_reset |-> TRUE]
    /\ UNCHANGED <<window_size, now, _min_duration, _max_duration>>

\* PerformanceMonitor.reset_metrics
reset_metrics ==
    /\ _request_history' = <<>>
    /\ _throughput_window' = <<>>
    /\ pm_total_requests' = 0
    /\ pm_successful_requests' = 0
    /\ pm_failed_requests' = 0
    /\ pm_total_duration' = 0
    /\ _min_duration' = Infinity
    /\ _max_duration' = 0
    /\ pm_last_request_time' = None
    /\ pm_recorded' = <<>>
    /\ pm_last' = [op |-> "reset", at |-> now, was_reset |-> TRUE]
    /\ UNCHANGED <<window_size, now>>

RECURSIVE SumDurations(_)
\* sum(req.duration for req in q)
SumDurations(q) ==
    IF q = <<>> THEN 0 ELSE Head(q).duration + SumDurations(Tail(q))

\* min / max over a non-empty list of requests
MinOfDurations(q) ==
    CHOOSE d \in {q[i].duration : i \in 1..Len(q)} :
        \A i \in 1..Len(q) : d <= q[i].duration
MaxOfDurations(q) ==
    CHOOSE d \in {q[i].duration : i \in 1..Len(q)} :
        \A i \in 1..Len(q) : d >= q[i].duration
MaxTimestamp(q) ==
    CHOOSE ts \in {q[i].timestamp : i \in 1..Len(q)} :
        \A i \in 1..Len(q) : ts >= q[i].timestamp

IsSuccess(req) == req.success

\* mutant: the average is taken over the request window
get_metrics_window_average ==
    [total_requests |-> pm_total_requests,
     successful_requests |-> pm_successful_requests,
     failed_requests |-> pm_failed_requests,
     average_response_time |->
        IF _request_history # <<>>
        THEN [num |-> SumDurations(_request_history),
              den |-> Len(_request_history)]
        ELSE [num |-> 0, den |-> 1],
     min_response_time |->
        IF _min_duration # Infinity THEN _min_duration ELSE 0,
     max_response_time |-> _max_duration,
     last_request_time |-> pm_last_request_time,
     throughput_per_second |->
        [num |-> Len(_throughput_window), den |-> THROUGHPUT_PERIOD]]

\* mutant: the extremes are taken over the request window
get_metrics_window_extremes ==
    [total_requests |-> pm_total_requests,
     successful_requests |-> pm_successful_requests,
     failed_requests |-> pm_failed_requests,
     average_response_time |->
        IF pm_total_requests > 0
        THEN [num |-> pm_total_duration, den |-> pm_total_requests]
        ELSE [num |-> 0, den |-> 1],
     min_response_time |->
        IF _request_history # <<>> THEN MinOfDurations(_request_history)
        ELSE 0,
     max_response_time |->
        IF _request_history # <<>> THEN MaxOfDurations(_request_history)
        ELSE 0,
     last_request_time |-> pm_last_request_time,
     throughput_per_second |->
        [num |-> Len(_throughput_window), den |-> THROUGHPUT_PERIOD]]

\* PerformanceMonitor.get_metrics
get_metrics ==
    [total_requests |-> pm_total_requests,
     successful_requests |-> pm_successful_requests,
     failed_requests |-> pm_failed_requests,
     average_response_time |->
        IF pm_total_requests > 0
        THEN [num |-> pm_total_duration, den |-> pm_total_requests]
        ELSE [num |-> 0, den |-> 1],
     min_response_time |->
        IF _min_duration # Infinity THEN _min_duration ELSE 0,
     max_response_time |-> _max_duration,
     last_request_time |-> pm_last_request_time,
     throughput_per_second |->
        [num |-> Len(_throughput_window), den |-> THROUGHPUT_PERIOD]]

\* get_recent_metrics: the window entries not older than the cutoff
recent_requests(seconds) ==
    LET cutoff_time == now - seconds
        recent(req) == req.timestamp >= cutoff_time
    IN  SelectSeq(_request_history, recent)

\* PerformanceMonitor.get_recent_metrics
get_recent_metrics(seconds) ==
    LET rr == recent_requests(seconds) IN
    IF rr = <<>> THEN PerformanceMetrics
    ELSE [total_requests |-> Len(rr),
          successful_requests |-> Len(SelectSeq(rr, IsSuccess)),
          failed_requests |-> Len(rr) - Len(SelectSeq(rr, IsSuccess)),
          average_response_time |->
             [num |-> SumDurations(rr), den |-> Len(rr)],
          min_response_time |-> MinOfDurations(rr),
          max_response_time |-> MaxOfDurations(rr),
          last_request_time |-> MaxTimestamp(rr),
          throughput_per_second |-> [num |-> Len(rr), den |-> seconds]]

\* mutant: the boundary 0.95 counts as degraded
health_of_rate_strict(successful, total) ==
    IF total = 0 \/ 100 * successful > 95 * total THEN "healthy"
    ELSE IF 100 * successful >= 90 * total THEN "degraded"
    ELSE "unhealthy"

\* get_health_status: the status of success_rate = successful / total, or of
\* 1.0 when total is 0 (>= 0.95 healthy, >= 0.90 degraded, else unhealthy)
health_of_rate(successful, total) ==
    IF total = 0 \/ 100 * successful >= 95 * total THEN "healthy"
    ELSE IF 100 * successful >= 90 * total THEN "degraded"
    ELSE "unhealthy"

\* PerformanceMonitor.get_health_status
get_health_status ==
    LET metrics == get_recent_metrics(HEALTH_PERIOD) IN
    [status |-> health_of_rate(metrics.successful_requests,
                               metrics.total_requests),
     success_rate |->
        IF metrics.total_requests > 0
        THEN [num |-> metrics.successful_requests,
              den |-> metrics.total_requests]
        ELSE [num |-> 1, den |-> 1],
     average_response_time |-> metrics.average_response_time,
     throughput |-> metrics.throughput_per_second,
     total_requests |-> metrics.total_requests]

\* the clock moves on
PMTick ==
    /\ now < MaxPMTime
    /\ now' = now + PMTickStep
    /\ pm_last' = [op |-> "tick", at |-> now', was_reset |-> pm_last.was_reset]
    /\ UNCHANGED <<pmVars, window_size, _request_history, _min_duration,
                   _max_duration, pm_last_request_time, _throughput_window,
                   pm_recorded>>

\* what a monitor alone leaves untouched
notPMVars ==
    <<cbVars, cbTaskVars, cbHistVars, last, clientVars, rqVars, mgrVars, cfgVars,
      promVars, reader>>

\* a PerformanceMonitor constructed with window size `size`
InitMonitor(size) ==
    /\ reader = NoRead
    /\ PrometheusMetricsAdapterInit
    /\ ConfigurationServiceClientInit(DEFAULT_CACHE_TTL_SECONDS)
    /\ ManagerInit(FALSE)
    /\ ClientInit("risk-monitor", "health_check")
    /\ PerformanceMonitorInit(size)
    /\ CircuitBreakerInit(CIRCUIT_BREAKER_FAILURE_THRESHOLD,
                          CIRCUIT_BREAKER_RECOVERY_TIMEOUT)
    /\ now = 0
    /\ cb_pc = [t \in Tasks |-> "idle"]
    /\ cb_admit = [t \in Tasks |-> "none"]
    /\ cb_out = [t \in Tasks |-> "none"]
    /\ consec = 0
    /\ rejected = 0
    /\ invoked = 0
    /\ last = [op |-> "init", task |-> 0, from |-> CLOSED]

InitPM == \E size \in 1..MaxWindowSize : InitMonitor(size)

NextPM ==
    \/ \E duration \in Durations : \E success \in BOOLEAN :
           /\ Len(pm_recorded) < MaxRecords
           /\ pm_record_request(duration, success, "unknown")
           /\ UNCHANGED notPMVars
    \/ reset_metrics /\ UNCHANGED notPMVars
    \/ PMTick /\ UNCHANGED notPMVars

\* a PerformanceMonitor with a small request window, recording requests of
\* any duration and outcome
SpecPM == InitPM /\ [][NextPM]_vars

InitBurst == InitMonitor(DEFAULT_WINDOW_SIZE)

NextBurst ==
    \/ /\ Len(pm_recorded) < MaxBurst
       /\ pm_record_request(1, TRUE, "unknown")
       /\ UNCHANGED notPMVars
    \/ PMTick /\ UNCHANGED notPMVars

\* a PerformanceMonitor recording up to MaxBurst requests in a row
SpecBurst == InitBurst /\ [][NextBurst]_vars

InitHealth == InitMonitor(DEFAULT_WINDOW_SIZE)

NextHealth ==
    \/ \E success \in BOOLEAN :
           /\ Len(pm_recorded) < MaxHealthRecords
           /\ success \/ pm_failed_requests < MaxFailures
           /\ pm_record_request(1, success, "unknown")
           /\ UNCHANGED notPMVars
    \/ PMTick /\ UNCHANGED notPMVars

\* a PerformanceMonitor recording up to MaxHealthRecords requests of which
\* up to MaxFailures fail
SpecHealth == InitHealth /\ [][NextHealth]_vars

-----------------------------------------------------------------------------
(* ConfigurationServiceClient: a TTL cache in front of an HTTP service. *)
(* get_configuration runs without suspension up to its first await, so   *)
(* the cache lookup and the miss count are one step; the HTTP response   *)
(* is a second step.                                                     *)

\* ConfigurationValue: the value the service sent and the time it was built
ConfigurationValue(value, at) == [value |-> value, retrieved_at |-> at]

\* _CacheEntry
CacheEntry(value, expires_at) == [value |-> value, expires_at |-> expires_at]

\* what get_configuration produced
ConfigReturn(value) == [type |-> "return", value |-> value, status_code |-> None]
ConfigurationError(status_code) ==
    [type |-> "ConfigurationError", value |-> NoValue, status_code |-> status_code]
ConfigPending == [type |-> "pending", value |-> NoValue, status_code |-> None]

\* the ways the HTTP exchange of get_configuration can end: a 200 response
\* with a valid body, a 404, another status, a timeout, a transport error,
\* a body that fails json(), the constructor or validate()
Outcomes == {"ok", "not_found", "server_error", "timeout", "request_error", "invalid"}

cache_expired_inclusive(entry, at) == at >= entry.expires_at

cache_expired_never(entry, at) == FALSE

\* the TTL check of _get_from_cache: datetime.utcnow() > entry.expires_at
cache_expired(entry, at) == at > entry.expires_at

\* _put_in_cache: the entry expires _cache_ttl after the moment of caching
put_in_cache(cache, key, value, at) ==
    [cache EXCEPT ![key] = CacheEntry(value, at + _cache_ttl)]

\* get_configuration(key) up to its return from the cache or, on a miss, up
\* to its suspension on the HTTP request: _get_from_cache (deleting an
\* expired entry, counting a hit), the miss count, the lazily created client
get_configuration(t, key) ==
    /\ cfg_pc[t] = "idle"
    /\ cfg_calls < MaxConfigCalls
    /\ cfg_calls' = cfg_calls + 1
    /\ LET entry == _cache[key] IN
       IF entry # NoEntry /\ ~cache_expired(entry, now)
       THEN /\ cache_hits' = cache_hits + 1
            /\ cfg_last' = [op |-> "get_configuration", key |-> key, hit |-> TRUE,
                            result |-> ConfigReturn(entry.value),
                            stale |-> NoValue]
            /\ UNCHANGED <<_cache, _cache_misses, _client, cfg_pc, cfg_key,
                           cfg_stale>>
       ELSE /\ _cache' = [_cache EXCEPT ![key] = NoEntry]
            /\ _cache_misses' = _cache_misses + 1
            /\ _client' = TRUE
            /\ cfg_pc' = [cfg_pc EXCEPT ![t] = "fetching"]
            /\ cfg_key' = [cfg_key EXCEPT ![t] = key]
            /\ cfg_stale' = [cfg_stale EXCEPT ![t] = entry.value]
            /\ cfg_last' = [op |-> "get_configuration", key |-> key, hit |-> FALSE,
                            result |-> ConfigPending, stale |-> entry.value]
            /\ UNCHANGED cache_hits
    /\ UNCHANGED <<_cache_ttl, served, cfg_cleanup_pc, now>>

\* what get_configuration does with the end of the HTTP exchange
configuration_result(key, outcome, at) ==
    CASE outcome = "ok" -> ConfigReturn(ConfigurationValue(served[key], at))
      [] outcome = "not_found" -> ConfigurationError(404)
      [] outcome = "server_error" -> ConfigurationError(500)
      [] OTHER -> ConfigurationError(None)

\* mutant: a failed fetch is counted as a second miss
http_response_counts_failure_again(t, outcome) ==
    /\ cfg_pc[t] = "fetching"
    /\ LET key == cfg_key[t]
           result == configuration_result(key, outcome, now) IN
       /\ _cache' = IF result.type = "return"
                    THEN put_in_cache(_cache, key, result.value, now)
                    ELSE _cache
       /\ cfg_last' = [op |-> "http_response", key |-> key, hit |-> FALSE,
                       result |-> result, stale |-> cfg_stale[t]]
    /\ cfg_pc' = [cfg_pc EXCEPT ![t] = "idle"]
    /\ cfg_key' = [cfg_key EXCEPT ![t] = NoKey]
    /\ cfg_stale' = [cfg_stale EXCEPT ![t] = NoValue]
    /\ _cache_misses' =
          IF configuration_result(cfg_key[t], outcome, now).type = "return"
          THEN _cache_misses ELSE _cache_misses + 1
    /\ UNCHANGED <<_cache_ttl, cache_hits, _client, served,
                   cfg_cleanup_pc, cfg_calls, now>>

\* get_configuration from the end of the HTTP exchange to its return or raise
http_response(t, outcome) ==
    /\ cfg_pc[t] = "fetching"
    /\ LET key == cfg_key[t]
           result == configuration_result(key, outcome, now) IN
       /\ _cache' = IF result.type = "return"
                    THEN put_in_cache(_cache, key, result.value, now)
                    ELSE _cache
       /\ cfg_last' = [op |-> "http_response", key |-> key, hit |-> FALSE,
                       result |-> result, stale |-> cfg_stale[t]]
    /\ cfg_pc' = [cfg_pc EXCEPT ![t] = "idle"]
    /\ cfg_key' = [cfg_key EXCEPT ![t] = NoKey]
    /\ cfg_stale' = [cfg_stale EXCEPT ![t] = NoValue]
    /\ UNCHANGED <<_cache_ttl, cache_hits, _cache_misses, _client, served,
                   cfg_cleanup_pc, cfg_calls, now>>

\* cleanup() up to its await of aclose(), or to its end when no HTTP client
\* was ever created
config_cleanup ==
    /\ cfg_cleanup_pc = "idle"
    /\ _cache' = [k \in Keys |-> NoEntry]
    /\ cache_hits' = 0
    /\ _cache_misses' = 0
    /\ cfg_cleanup_pc' = IF _client THEN "closing" ELSE "idle"
    /\ cfg_last' = [op |-> "cleanup", key |-> NoKey, hit |-> FALSE,
                    result |-> ConfigPending, stale |-> NoValue]
    /\ UNCHANGED <<_cache_ttl, _client, served, cfg_pc, cfg_key, cfg_stale,
                   cfg_calls, now>>

\* cleanup() after aclose() returned
config_cleanup_closed ==
    /\ cfg_cleanup_pc = "closing"
    /\ _client' = FALSE
    /\ cfg_cleanup_pc' = "idle"
    /\ cfg_last' = [op |-> "closed", key |-> NoKey, hit |-> FALSE,
                    result |-> ConfigPending, stale |-> NoValue]
    /\ UNCHANGED <<_cache_ttl, _cache, cache_hits, _cache_misses, served,
                   cfg_pc, cfg_key, cfg_stale, cfg_calls, now>>

\* the configuration service changes the value it holds for a key
service_update(key) ==
    /\ served[key] < MaxVersion
    /\ served' = [served EXCEPT ![key] = @ + 1]
    /\ cfg_last' = [op |-> "update", key |-> key, hit |-> FALSE,
                    result |-> ConfigPending, stale |-> NoValue]
    /\ UNCHANGED <<_cache_ttl, _cache, cache_hits, _cache_misses, _client,
                   cfg_pc, cfg_key, cfg_stale, cfg_cleanup_pc, cfg_calls, now>>

\* datetime.utcnow() advances
ConfigTick ==
    /\ now < MaxConfigTime
    /\ now' = now + 1
    /\ cfg_last' = [op |-> "tick", key |-> NoKey, hit |-> FALSE,
                    result |-> ConfigPending, stale |-> NoValue]
    /\ UNCHANGED <<_cache_ttl, _cache, cache_hits, _cache_misses, _client,
                   served, cfg_pc, cfg_key, cfg_stale, cfg_cleanup_pc, cfg_calls>>

\* what a configuration client alone leaves untouched
notConfigVars ==
    <<cbVars, cbTaskVars, cbHistVars, last, clientVars, pmVars, rqVars, mgrVars,
      pmWinVars, promVars, reader>>

InitConfig ==
    /\ reader = NoRead
    /\ PrometheusMetricsAdapterInit
    /\ \E ttl \in 0..MaxTTL : ConfigurationServiceClientInit(ttl)
    /\ ManagerInit(FALSE)
    /\ ClientInit("risk-monitor", "health_check")
    /\ PerformanceMonitorInit(DEFAULT_WINDOW_SIZE)
    /\ CircuitBreakerInit(CIRCUIT_BREAKER_FAILURE_THRESHOLD,
                          CIRCUIT_BREAKER_RECOVERY_TIMEOUT)
    /\ now = 0
    /\ cb_pc = [t \in Tasks |-> "idle"]
    /\ cb_admit = [t \in Tasks |-> "none"]
    /\ cb_out = [t \in Tasks |-> "none"]
    /\ consec = 0
    /\ rejected = 0
    /\ invoked = 0
    /\ last = [op |-> "init", task |-> 0, from |-> CLOSED]

NextConfig ==
    \/ \E t \in ConfigTasks : \E key \in Keys :
           get_configuration(t, key) /\ UNCHANGED notConfigVars
    \/ \E t \in ConfigTasks : \E outcome \in Outcomes :
           http_response(t, outcome) /\ UNCHANGED notConfigVars
    \/ config_cleanup /\ UNCHANGED notConfigVars
    \/ config_cleanup_closed /\ UNCHANGED notConfigVars
    \/ \E key \in Keys : service_update(key) /\ UNCHANGED notConfigVars
    \/ ConfigTick /\ UNCHANGED notConfigVars

\* a ConfigurationServiceClient with a short TTL, called by ConfigTasks
\* coroutines while the clock advances and the service changes its values
SpecConfig == InitConfig /\ [][NextConfig]_vars

-----------------------------------------------------------------------------
(* PrometheusMetricsAdapter: lazily created collectors, called from      *)
(* several threads. A step is one statement of a thread; the update of a *)
(* collector (inc, observe, set) is atomic in the metrics library.       *)

\* the dict of the adapter that holds the collectors of a kind
collectors(kind) ==
    CASE kind = "counter" -> _counters
      [] kind = "histogram" -> _histograms
      [] OTHER -> _gauges

double_check_skipped(dict, name) == FALSE

\* the check made again once the lock is held: name in self._counters
double_check(dict, name) == name \in DOMAIN dict

\* inc_counter / observe_histogram / set_gauge up to the fast path of
\* _get_or_create_X: the collector found without the lock, or not found
get_or_create_fast(th, kind) ==
    /\ prom_thread[th].pc = "idle"
    /\ prom_calls < MaxMetricCalls
    /\ prom_calls' = prom_calls + 1
    /\ LET name == MetricName(kind)
           dict == collectors(kind) IN
       prom_thread' = [prom_thread EXCEPT ![th] =
           IF name \in DOMAIN dict
           THEN [pc |-> "update", kind |-> kind, got |-> dict[name]]
           ELSE [pc |-> "acquire", kind |-> kind, got |-> 0]]
    /\ UNCHANGED <<_counters, _histograms, _gauges, _lock, registered, updates,
                   prom_done>>

\* with self._lock: the thread waits until the lock is free and takes it
lock_acquire(th) ==
    /\ prom_thread[th].pc = "acquire"
    /\ _lock = 0
    /\ _lock' = th
    /\ prom_thread' = [prom_thread EXCEPT ![th].pc = "locked"]
    /\ UNCHANGED <<_counters, _histograms, _gauges, registered, updates,
                   prom_calls, prom_done>>

\* the slow path under the lock: the double check, which returns the
\* collector stored meanwhile and releases the lock, or else the creation
\* of a collector registered in self.registry
get_or_create_locked(th) ==
    /\ prom_thread[th].pc = "locked"
    /\ LET kind == prom_thread[th].kind
           name == MetricName(kind)
           dict == collectors(kind) IN
       IF double_check(dict, name)
       THEN /\ prom_thread' = [prom_thread EXCEPT ![th].pc = "update",
                                                  ![th].got = dict[name]]
            /\ _lock' = 0
            /\ UNCHANGED <<registered, updates>>
       ELSE /\ registered' = Append(registered, kind)
            /\ updates' = Append(updates, 0)
            /\ prom_thread' = [prom_thread EXCEPT ![th].pc = "created",
                                                  ![th].got = Len(registered) + 1]
            /\ UNCHANGED _lock
    /\ UNCHANGED <<_counters, _histograms, _gauges, prom_calls, prom_done>>

\* self._counters[name] = counter; return counter, which releases the lock
store_and_release(th) ==
    /\ prom_thread[th].pc = "created"
    /\ LET kind == prom_thread[th].kind
           entry == MetricName(kind) :> prom_thread[th].got IN
       /\ _counters' = IF kind = "counter" THEN entry @@ _counters ELSE _counters
       /\ _histograms' =
              IF kind = "histogram" THEN entry @@ _histograms ELSE _histograms
       /\ _gauges' = IF kind = "gauge" THEN entry @@ _gauges ELSE _gauges
    /\ _lock' = 0
    /\ prom_thread' = [prom_thread EXCEPT ![th].pc = "update"]
    /\ UNCHANGED <<registered, updates, prom_calls, prom_done>>

\* counter.labels(**labels).inc() / histogram...observe(value) /
\* gauge...set(value) on the collector obtained
metric_update(th) ==
    /\ prom_thread[th].pc = "update"
    /\ updates' = [updates EXCEPT ![prom_thread[th].got] = @ + 1]
    /\ prom_done' = [prom_done EXCEPT ![prom_thread[th].kind] = @ + 1]
    /\ prom_thread' = [prom_thread EXCEPT ![th] = NoThreadCall]
    /\ UNCHANGED <<_counters, _histograms, _gauges, _lock, registered,
                   prom_calls>>

\* what an adapter alone leaves untouched
notPromVars ==
    <<cbVars, now, cbTaskVars, cbHistVars, last, clientVars, pmVars, rqVars,
      mgrVars, pmWinVars, cfgVars, reader>>

InitProm == InitMonitor(DEFAULT_WINDOW_SIZE)

NextProm ==
    \/ \E th \in Threads : \E kind \in Kinds :
           get_or_create_fast(th, kind) /\ UNCHANGED notPromVars
    \/ \E th \in Threads : lock_acquire(th) /\ UNCHANGED notPromVars
    \/ \E th \in Threads : get_or_create_locked(th) /\ UNCHANGED notPromVars
    \/ \E th \in Threads : store_and_release(th) /\ UNCHANGED notPromVars
    \/ \E th \in Threads : metric_update(th) /\ UNCHANGED notPromVars

\* a PrometheusMetricsAdapter called by Threads threads
SpecProm == InitProm /\ [][NextProm]_vars

-----------------------------------------------------------------------------
(* The read operations: statistics, metrics and health snapshots *)

\* the requests a monitor records between its reads
MaxReadRecords == 2

\* everything but the record of the last read
programVars ==
    <<cbVars, now, cbTaskVars, cbHistVars, last, clientVars, pmVars, rqVars,
      mgrVars, pmWinVars, cfgVars, promVars>>

\* a read builds its result from the fields and assigns none of them
read(part, op) ==
    /\ reader.part = part
    /\ reader' = [reader EXCEPT !.op = op]
    /\ UNCHANGED programVars

\* CircuitBreaker.get_stats
circuit_breaker_get_stats == read("client", "CircuitBreaker.get_stats")

\* BaseGrpcClient.get_stats: the breaker's statistics, the monitor's metrics
\* and its health status, and the client's own counters
client_get_stats == read("client", "BaseGrpcClient.get_stats")

\* InterServiceClientManager.get_manager_stats
get_manager_stats == read("manager", "InterServiceClientManager.get_manager_stats")

\* a get_metrics that starts a new measuring period after reading
get_metrics_then_reset ==
    /\ reader.part = "monitor"
    /\ reader' = [reader EXCEPT !.op = "PerformanceMonitor.get_metrics"]
    /\ reset_metrics
    /\ UNCHANGED <<cbVars, cbTaskVars, cbHistVars, last, clientVars, rqVars,
                   mgrVars, cfgVars, promVars>>

\* PerformanceMonitor.get_metrics
read_get_metrics == read("monitor", "PerformanceMonitor.get_metrics")

\* PerformanceMonitor.get_recent_metrics, for any number of seconds
read_get_recent_metrics == read("monitor", "PerformanceMonitor.get_recent_metrics")

\* PerformanceMonitor.get_health_status
read_get_health_status == read("monitor", "PerformanceMonitor.get_health_status")

InitRead ==
    /\ \E part \in {"client", "monitor", "manager"} :
           reader = [part |-> part, op |-> "none"]
    /\ PrometheusMetricsAdapterInit
    /\ ConfigurationServiceClientInit(DEFAULT_CACHE_TTL_SECONDS)
    /\ PerformanceMonitorInit(DEFAULT_WINDOW_SIZE)
    /\ ManagerInit(reader.part = "manager")
    /\ ClientInit("risk-monitor", "health_check")
    /\ \E threshold \in {1, CIRCUIT_BREAKER_FAILURE_THRESHOLD} :
           /\ reader.part # "client" => threshold = CIRCUIT_BREAKER_FAILURE_THRESHOLD
           /\ CircuitBreakerInit(threshold, CIRCUIT_BREAKER_RECOVERY_TIMEOUT)
    /\ now = 0
    /\ cb_pc = [t \in Tasks |-> "idle"]
    /\ cb_admit = [t \in Tasks |-> "none"]
    /\ cb_out = [t \in Tasks |-> "none"]
    /\ consec = 0
    /\ rejected = 0
    /\ invoked = 0
    /\ last = [op |-> "init", task |-> 0, from |-> CLOSED]

NextRead ==
    \/ reader.part = "client" /\ NextPublic
    \/ /\ reader.part = "monitor"
       /\ \E duration \in Durations : \E success \in BOOLEAN :
              /\ Len(pm_recorded) < MaxReadRecords
              /\ pm_record_request(duration, success, "unknown")
       /\ UNCHANGED notPMVars
    \/ reader.part = "monitor" /\ PMTick /\ UNCHANGED notPMVars
    \/ /\ reader.part = "manager"
       /\ \/ \E service \in Services : \E use_fallback \in BOOLEAN :
                 get_client(1, service, use_fallback)
          \/ \E answer \in DiscoveryAnswers : get_resolved(1, answer)
          \/ initialize
          \/ \E id \in ClientIds : mgr_connect(id)
          \/ mgr_cleanup_enter
          \/ \E ok \in BOOLEAN : mgr_cleanup_closed(ok)
       /\ UNCHANGED notMgrVars
    \/ circuit_breaker_get_stats
    \/ client_get_stats
    \/ get_manager_stats
    \/ read_get_metrics
    \/ read_get_recent_metrics
    \/ read_get_health_status

\* a client with its breaker and monitor, a monitor alone, or a client
\* manager used by one coroutine and cleaned up by another, each read at any
\* point of its use
SpecRead == InitRead /\ [][NextRead]_vars

-----------------------------------------------------------------------------
(* A breaker in use without end: the same code, with the counters and the   *)
(* clock kept in a finite range so that a behaviour can go on for ever      *)

\* failure_count, counted up to failure_threshold: the code compares it with
\* failure_threshold only
Counted(n) == IF n > failure_threshold THEN failure_threshold ELSE n

\* a statistic, kept as none or some: the code compares total_calls,
\* successful_calls and failed_calls with nothing
Some(n) == IF n > 0 THEN 1 ELSE 0

\* a time of the past seen one second later, once the clock stands at
\* MaxTime: the code reads times as now - time >= recovery_timeout only, and
\* recovery_timeout <= MaxRecovery <= MaxTime
Older(time) ==
    IF time = None THEN None ELSE IF time > 0 THEN time - 1 ELSE 0

\* call(): the stretch up to `await func(...)`, or up to the breaker-open raise
live_call_enter(t) ==
    /\ cb_pc[t] = "idle"
    /\ total_calls' = Some(total_calls + 1)
    /\ state' = IF state = OPEN /\ should_attempt_reset THEN HALF_OPEN ELSE state
    /\ IF call_rejects
         THEN /\ last' = [op |-> "reject", task |-> 0, from |-> state]
              /\ UNCHANGED cb_pc
         ELSE /\ cb_pc' = [cb_pc EXCEPT ![t] = "awaiting"]
              /\ last' = [op |-> "admit", task |-> 0, from |-> state]
    /\ UNCHANGED <<failure_count, last_failure_time, last_success_time,
                   successful_calls, failed_calls, failure_threshold,
                   recovery_timeout, cb_admit, cb_out, cbHistVars, now>>

\* call(): `result = await func(...)` returned; _on_success(); return result
live_call_return(t) ==
    /\ cb_pc[t] = "awaiting"
    /\ successful_calls' = Some(successful_calls + 1)
    /\ last_success_time' = now
    /\ IF state = HALF_OPEN
         THEN state' = CLOSED /\ failure_count' = 0
         ELSE UNCHANGED <<state, failure_count>>
    /\ cb_pc' = [cb_pc EXCEPT ![t] = "idle"]
    /\ last' = [op |-> "success", task |-> 0, from |-> state]
    /\ UNCHANGED <<last_failure_time, total_calls, failed_calls,
                   failure_threshold, recovery_timeout, cb_admit, cb_out,
                   cbHistVars, now>>

\* call(): `await func(...)` raised; _on_failure(); raise
live_call_raise(t) ==
    /\ cb_pc[t] = "awaiting"
    /\ failed_calls' = Some(failed_calls + 1)
    /\ failure_count' = Counted(failure_count + 1)
    /\ last_failure_time' = now
    /\ state' = IF failure_count + 1 >= failure_threshold THEN OPEN ELSE state
    /\ cb_pc' = [cb_pc EXCEPT ![t] = "idle"]
    /\ last' = [op |-> "failure", task |-> 0, from |-> state]
    /\ UNCHANGED <<last_success_time, total_calls, successful_calls,
                   failure_threshold, recovery_timeout, cb_admit, cb_out,
                   cbHistVars, now>>

\* the wall clock advances by a second: all times keep their distances
LiveTick ==
    /\ IF now < MaxTime
         THEN now' = now + 1
              /\ UNCHANGED <<last_failure_time, last_success_time>>
         ELSE /\ now' = now
              /\ last_failure_time' = Older(last_failure_time)
              /\ last_success_time' = Older(last_success_time)
    /\ last' = [op |-> "tick", task |-> 0, from |-> state]
    /\ UNCHANGED <<state, failure_count, total_calls, successful_calls,
                   failed_calls, failure_threshold, recovery_timeout,
                   cbTaskVars, cbHistVars>>

NextLive ==
    \/ \E t \in Tasks : live_call_enter(t) /\ UNCHANGED notCBVars
    \/ \E t \in Tasks : live_call_return(t) /\ UNCHANGED notCBVars
    \/ \E t \in Tasks : live_call_raise(t) /\ UNCHANGED notCBVars
    \/ LiveTick /\ UNCHANGED notCBVars

\* time keeps advancing, calls keep being issued, and every unit of work
\* started comes to an end
FairLive ==
    /\ WF_vars(LiveTick /\ UNCHANGED notCBVars)
    /\ WF_vars(\E t \in Tasks : live_call_enter(t) /\ UNCHANGED notCBVars)
    /\ \A t \in Tasks :
          WF_vars((live_call_return(t) \/ live_call_raise(t))
                     /\ UNCHANGED notCBVars)

\* a breaker shared by NTasks coroutines that never stop calling it
SpecLive == InitCB /\ [][NextLive]_vars /\ FairLive

----------------------------------------------------------------------------
(* Properties of the circuit breaker, checked under SpecCB *)

AllCallsCompleted == \A t \in Tasks : cb_pc[t] = "idle"

\* the last operation was a call() that met the OPEN breaker before (after)
\* recovery_timeout had elapsed; call() changes neither the clock nor
\* last_failure_time, so both are read in the state the call produced
MetOpen ==
    last.op \in {"admit", "reject"} /\ last.from = OPEN
MetOpenBefore ==
    MetOpen /\ now - last_failure_time < recovery_timeout
MetOpenAfter ==
    MetOpen /\ now - last_failure_time >= recovery_timeout

\* C1: after failure_threshold or more consecutive invocations of call() that
\* raised (no invocation returned in between) the state is OPEN, and a call
\* made while OPEN before recovery_timeout has elapsed raises the breaker-open
\* error without starting its unit of work.
C1_OpenAfterThresholdFailures ==
    [][ /\ (last'.op \in {"failure", "reject"} /\ consec' >= failure_threshold
              => state' = OPEN)
        /\ (MetOpenBefore' => /\ last'.op = "reject"
                 /\ cb_out'[last'.task] = "rejected"
                 /\ cb_pc'[last'.task] = "idle"
                 /\ invoked' = invoked) ]_vars

\* the (N+1)th call is rejected right after N >= failure_threshold failing ones
C1_Witness ==
    /\ last.op = "reject"
    /\ consec > failure_threshold
    /\ failed_calls = failure_threshold
    /\ rejected = 1
    /\ state = OPEN

\* C2 as stated: a call that meets the OPEN breaker before recovery_timeout
\* is rejected and the state stays OPEN; one that meets it at or after
\* recovery_timeout moves it to HALF_OPEN and runs its unit of work; when that
\* unit of work succeeds the breaker is CLOSED with failure_count = 0.
C2_Original ==
    [][ /\ (MetOpenBefore' => last'.op = "reject" /\ state' = OPEN)
        /\ (MetOpenAfter' => /\ last'.op = "admit"
                 /\ state' = HALF_OPEN
                 /\ cb_pc'[last'.task] = "awaiting"
                 /\ invoked' = invoked + 1)
        /\ (last'.op = "success" /\ cb_admit[last'.task] = "trial"
              => state' = CLOSED /\ failure_count' = 0) ]_vars

\* C2 amended: as above, but the success of the trial call closes the breaker
\* only when the breaker is still HALF_OPEN at that moment; when a concurrent
\* call completed in between and moved the breaker (a failure re-opened it),
\* the success changes neither the state nor failure_count.
C2_RecoveryAfterTimeout ==
    [][ /\ (MetOpenBefore' => last'.op = "reject" /\ state' = OPEN)
        /\ (MetOpenAfter' => /\ last'.op = "admit"
                 /\ state' = HALF_OPEN
                 /\ cb_pc'[last'.task] = "awaiting"
                 /\ invoked' = invoked + 1)
        /\ (last'.op = "success" /\ cb_admit[last'.task] = "trial"
              => /\ (state = HALF_OPEN => state' = CLOSED /\ failure_count' = 0)
                 /\ (state # HALF_OPEN
                       => state' = state /\ failure_count' = failure_count)) ]_vars

\* the trial call admitted at exactly recovery_timeout succeeded and closed
\* the breaker
C2_Witness ==
    /\ last.op = "success"
    /\ last.from = HALF_OPEN
    /\ cb_admit[last.task] = "trial"
    /\ recovery_timeout > 0
    /\ now - last_failure_time = recovery_timeout
    /\ state = CLOSED
    /\ failure_count = 0

\* C3: a unit of work that raises while the breaker is HALF_OPEN leaves the
\* breaker OPEN, for every failure_threshold >= 1.
C3_HalfOpenFailureReopens ==
    last.op = "failure" /\ last.from = HALF_OPEN => state = OPEN

\* a failure met the HALF_OPEN breaker with failure_count already past the
\* threshold
C3_Witness ==
    /\ last.op = "failure"
    /\ last.from = HALF_OPEN
    /\ failure_count > failure_threshold
    /\ state = OPEN

C5_SingleTrialCall ==
    \A t, u \in Tasks :
        (cb_pc[t] = "awaiting" /\ cb_admit[t] = "trial" /\ cb_pc[u] = "awaiting" /\ u # t)
            => cb_admit[u] # HALF_OPEN

----------------------------------------------------------------------------
(* Properties of the request pipeline *)

\* C6 (checked under SpecPublic): a public operation called on a client that
\* is not connected connects it and runs through _make_request: the caller
\* gets the operation's result or a ServiceCommunicationError, and unless
\* connect() itself failed the client is connected afterwards.
C6_LazyConnect ==
    (rq_last.public /\ rq_last.out.type # "None" /\ ~rq_last.met_connected)
        => /\ rq_last.entered
           /\ caller_outcome.type \in {"return", "ServiceCommunicationError"}
           /\ (caller_outcome.type = "return" => is_connected)

C8_TimeoutCountsAsFailure ==
    [][ rq_last'.uow.type = "TimeoutError"
          => /\ rq_last'.out = ServiceCommunicationError(
                    "Request timeout", service_name, "None", "None")
             /\ failed_calls' = failed_calls + 1
             /\ failure_count' = failure_count + 1
             /\ (timeouts_in_a_row' >= failure_threshold => state' = OPEN) ]_vars

\* the failure_threshold-th timeout in a row opened the breaker
C8_Witness ==
    /\ rq_last.uow.type = "TimeoutError"
    /\ timeouts_in_a_row = failure_threshold
    /\ failed_calls = failure_threshold
    /\ last.from = CLOSED
    /\ state = OPEN

----------------------------------------------------------------------------
(* Properties of the client manager, checked under SpecMgr *)

\* the client constructed last among those of S
Latest(S) == CHOOSE id \in S : \A other \in S : other <= id

\* C9: a get_X_client call returns the very client that every call for the
\* same service returned which had returned before this one was entered,
\* with no step of cleanup() in between; and it constructs no client when
\* there was such an earlier call.
C9_Original ==
    mgr_last.op = "get"
        => /\ mgr_last.seen \subseteq {mgr_last.client}
           /\ (mgr_last.seen # {} => ~mgr_last.constructed)

\* C9 amended: a get_X_client call entered after a call for the same service
\* returned, with no step of cleanup() and no return of another call for
\* that service in between, returns the client that call returned, and
\* constructs no client.
C9_CachedClientReturned ==
    (mgr_last.op = "get" /\ mgr_last.prev # 0)
        => /\ mgr_last.client = mgr_last.prev
           /\ ~mgr_last.constructed

\* a call returned the client of the call before it, without constructing
C9_Witness ==
    /\ mgr_last.op = "get"
    /\ mgr_last.prev # 0
    /\ mgr_last.client = mgr_last.prev
    /\ ~mgr_last.constructed
    /\ built[mgr_last.service] = {mgr_last.client}

\* C10: a get_X_client call suspends in endpoint resolution only with a
\* discovery collaborator and use_fallback false; only then are two clients
\* constructed for a service with no step of cleanup() in between, and the
\* registry holds the one constructed (and written) last.
C10_LastWriteWins ==
    /\ \A t \in Resolving : service_discovery /\ ~get_use_fallback[t]
    /\ \A service \in Services :
         /\ Cardinality(built[service]) > 1 => service_discovery
         /\ built[service] # {}
              => /\ registry_has(service)
                 /\ registry_get(service) = Latest(built[service])

\* two calls for one service, the second entered before the first returned,
\* each constructed and returned its own client; the registry holds the
\* later one alone
C10_Witness ==
    /\ service_discovery
    /\ Resolving = {}
    /\ mgr_last.op = "get"
    /\ mgr_last.constructed
    /\ mgr_last.seen = {}
    /\ Cardinality(built[mgr_last.service] \cap returned[mgr_last.service]) = 2
    /\ Cardinality(registry_index(mgr_last.service)) = 1
    /\ registry_get(mgr_last.service) = mgr_last.client
    /\ mgr_last.client = Latest(built[mgr_last.service])

\* a call of cleanup() has just ended, by returning or by raising
CleanupEnded == mgr_last.op \in {"cleanup_completed", "cleanup_RuntimeError"}

\* C11: whenever a call of the manager's cleanup() has ended, the registry is
\* empty and the manager is not initialized, also when the close() of a
\* registered client raised.
C11_CleanupClearsRegistry ==
    CleanupEnded => _clients = <<>> /\ ~_initialized

\* the last operation was a get_X_client that constructed a client after the
\* discovery collaborator returned an entry it had been asked for
BuiltFromDiscovery ==
    /\ mgr_last.op = "get"
    /\ mgr_last.constructed
    /\ service_discovery
    /\ ~mgr_last.asked.use_fallback
    /\ mgr_last.asked.answer.type = "found"

\* C12: a get_X_client whose discovery lookup raised or returned no entry, or
\* that ran without a discovery collaborator or with use_fallback true, ends
\* by returning a client built for "localhost" and the default port of its
\* service (50054 for risk-monitor, 50053 for test-coordinator); one whose
\* lookup returned an entry builds the client for the entry's host and
\* grpc_port.
C12_FallbackEndpoint ==
    (mgr_last.op = "get" /\ mgr_last.constructed)
        => /\ mgr_last.client # 0
           /\ registry_get(mgr_last.service) = mgr_last.client
           /\ IF BuiltFromDiscovery
                THEN mgr_last.endpoint =
                        [host |-> mgr_last.asked.answer.host,
                         port |-> mgr_last.asked.answer.grpc_port]
                ELSE mgr_last.endpoint =
                        [host |-> "localhost",
                         port |-> IF mgr_last.service = "risk-monitor"
                                    THEN 50054 ELSE 50053]

\* the discovery lookup raised and the client was built for the fallback
C12_Witness ==
    /\ mgr_last.op = "get"
    /\ mgr_last.constructed
    /\ service_discovery
    /\ mgr_last.asked.answer.type = "raise"
    /\ mgr_last.service = "test-coordinator"
    /\ mgr_last.endpoint = [host |-> "localhost", port |-> 50053]

----------------------------------------------------------------------------
(* Properties of the performance monitor *)

\* the quotient a equals n / d
QuotientIs(a, n, d) == a.num * d = n * a.den

\* C13 (checked under SpecPM): get_metrics().average_response_time is the sum
\* of all durations recorded since construction or the last reset_metrics
\* divided by their number, whatever the request window has evicted, and 0
\* when nothing has been recorded.
C13_AverageOverAllRecords ==
    IF Len(pm_recorded) > 0
    THEN QuotientIs(get_metrics.average_response_time,
                    SumDurations(pm_recorded), Len(pm_recorded))
    ELSE QuotientIs(get_metrics.average_response_time, 0, 1)

\* the window has evicted a record whose duration the average still counts
C13_Witness ==
    /\ Len(pm_recorded) > Len(_request_history)
    /\ SumDurations(pm_recorded) # SumDurations(_request_history)
    /\ QuotientIs(get_metrics.average_response_time,
                  SumDurations(pm_recorded), Len(pm_recorded))
    /\ ~QuotientIs(get_metrics.average_response_time,
                   SumDurations(_request_history), Len(_request_history))

AllNonNegative(q) == \A i \in 1..Len(q) : q[i].duration >= 0

\* C14 (checked under SpecPM): when no recorded duration is negative,
\* get_metrics() reports the smallest and the largest of all durations
\* recorded since construction or reset, evicted ones included, and a
\* min_response_time of 0 when nothing has been recorded.
C14_LifetimeExtremes ==
    AllNonNegative(pm_recorded)
        => IF pm_recorded = <<>>
           THEN get_metrics.min_response_time = 0
           ELSE /\ get_metrics.min_response_time = MinOfDurations(pm_recorded)
                /\ get_metrics.max_response_time = MaxOfDurations(pm_recorded)

\* the window has evicted the shortest record, which is still reported
C14_Witness ==
    /\ AllNonNegative(pm_recorded)
    /\ _request_history # <<>>
    /\ Len(pm_recorded) > Len(_request_history)
    /\ get_metrics.min_response_time < MinOfDurations(_request_history)
    /\ get_metrics.max_response_time > get_metrics.min_response_time
    /\ get_metrics.min_response_time = MinOfDurations(pm_recorded)
    /\ get_metrics.max_response_time = MaxOfDurations(pm_recorded)

\* window entries of the last 60 seconds, and the successful ones among them
RecentEntries ==
    {i \in 1..Len(_request_history) :
        _request_history[i].timestamp >= now - 60}
RecentSuccesses == {i \in RecentEntries : _request_history[i].success}

\* C15 (checked under SpecHealth): get_health_status() reports "healthy"
\* with success_rate 1.0 when the window holds no entry of the last 60
\* seconds; otherwise, with the rate successful/total of those entries,
\* "healthy" when rate >= 0.95, "degraded" when 0.90 <= rate < 0.95 and
\* "unhealthy" when rate < 0.90.
C15_HealthStatus ==
    LET total == Cardinality(RecentEntries)
        successful == Cardinality(RecentSuccesses)
        h == get_health_status
    IN  IF total = 0
        THEN h.status = "healthy" /\ QuotientIs(h.success_rate, 1, 1)
        ELSE /\ QuotientIs(h.success_rate, successful, total)
             /\ (h.status = "healthy") = (100 * successful >= 95 * total)
             /\ (h.status = "degraded") = (/\ 100 * successful >= 90 * total
                                           /\ 100 * successful < 95 * total)
             /\ (h.status = "unhealthy") = (100 * successful < 90 * total)

\* 19 of 20 recent requests succeeded: the rate is 0.95 and the status healthy
C15_Witness ==
    /\ Cardinality(RecentEntries) = 20
    /\ Cardinality(RecentSuccesses) = 19
    /\ get_health_status.status = "healthy"

\* the periods get_recent_metrics is asked for
RecentPeriods == {0, 40, 60, 80}

\* the last k entries of q
LastEntries(q, k) == SubSeq(q, Len(q) - k + 1, Len(q))

\* C16 (checked under SpecPM): after n record_request calls with no reset,
\* get_metrics().total_requests is n, the request window holds the
\* min(n, window_size) most recent records in arrival order, and
\* get_recent_metrics(s) counts the window entries with timestamp >= now - s.
C16_TotalsAndWindow ==
    LET n == Len(pm_recorded)
        k == IF n < window_size THEN n ELSE window_size
    IN  /\ get_metrics.total_requests = n
        /\ _request_history = LastEntries(pm_recorded, k)
        /\ \A s \in RecentPeriods :
              get_recent_metrics(s).total_requests =
                Cardinality({i \in 1..Len(_request_history) :
                                _request_history[i].timestamp >= now - s})

\* more records than the window holds, and of the window entries one is
\* older than 60 seconds and one is not
C16_Witness ==
    /\ Len(pm_recorded) > window_size
    /\ Len(_request_history) = window_size
    /\ get_metrics.total_requests = Len(pm_recorded)
    /\ get_recent_metrics(60).total_requests > 0
    /\ get_recent_metrics(60).total_requests < Len(_request_history)

\* the records of the last 60 seconds, evicted or not
RecordedLately ==
    {i \in 1..Len(pm_recorded) : pm_recorded[i].timestamp >= now - 60}

\* C17 (checked under SpecBurst): right after a record_request the
\* throughput window holds one timestamp for every call recorded in the last
\* 60 seconds, and get_metrics().throughput_per_second is their number
\* divided by 60.
C17_ThroughputCountsAllCalls ==
    pm_last.op = "record"
        => /\ Len(_throughput_window) = Cardinality(RecordedLately)
           /\ QuotientIs(get_metrics.throughput_per_second,
                         Cardinality(RecordedLately), 60)

\* C18 (checked under SpecBurst): right after a record_request made at time
\* t, every timestamp in the throughput window is >= t - 60.
C18_ThroughputWindowPruned ==
    pm_last.op = "record"
        => \A i \in 1..Len(_throughput_window) :
              _throughput_window[i] >= pm_last.at - 60

\* a record made more than 60 seconds after earlier ones dropped their
\* timestamps and kept its own
C18_Witness ==
    /\ pm_last.op = "record"
    /\ Len(pm_recorded) <= THROUGHPUT_WINDOW_MAXLEN
    /\ \E i \in 1..Len(pm_recorded) : pm_recorded[i].timestamp < now - 60
    /\ Len(_throughput_window) < Len(pm_recorded)
    /\ _throughput_window # <<>>
    /\ \A i \in 1..Len(_throughput_window) : _throughput_window[i] >= now - 60

-----------------------------------------------------------------------------
(* Properties of the configuration client, checked under SpecConfig *)

\* the step is a call of get_configuration(key)
CallOf(key) ==
    /\ cfg_calls' = cfg_calls + 1
    /\ cfg_last'.op = "get_configuration"
    /\ cfg_last'.key = key

\* the cache holds an entry for key that has not expired
Unexpired(key) == _cache[key] # NoEntry /\ now <= _cache[key].expires_at

\* the cache holds an entry for key that has expired
Expired(key) == _cache[key] # NoEntry /\ now > _cache[key].expires_at

\* C19: a get_configuration(key) made while the cache holds an entry for key
\* that has not expired (as it does after a successful get_configuration(key)
\* until expires_at) returns the cached value, starts no HTTP request, adds
\* one to cache_hits and leaves cache_misses and the cache unchanged.
C19_CachedValueServed ==
    [][\A key \in Keys :
          (CallOf(key) /\ Unexpired(key)) =>
              /\ cfg_last'.hit
              /\ cfg_last'.result = ConfigReturn(_cache[key].value)
              /\ cfg_pc' = cfg_pc
              /\ cache_hits' = cache_hits + 1
              /\ _cache_misses' = _cache_misses
              /\ _cache' = _cache]_vars

\* the second of two calls has been served from the cache: hits 1, misses 1,
\* and no coroutine is waiting for the service
C19_Witness ==
    /\ cfg_last.op = "get_configuration"
    /\ cfg_last.hit
    /\ cfg_last.result.type = "return"
    /\ cfg_calls = 2
    /\ cache_hits = 1
    /\ _cache_misses = 1
    /\ \A t \in ConfigTasks : cfg_pc[t] = "idle"

\* C20: an entry is served only while the clock has not passed its
\* expires_at, which is the time of caching plus the TTL; a
\* get_configuration(key) that finds the entry expired removes it, counts a
\* miss and no hit and starts an HTTP fetch; a fetch that succeeds returns
\* the value just fetched and caches it, and a call that found an expired
\* entry never returns that entry's value (a fetch that fails raises
\* ConfigurationError).
C20_ExpiredEntryRefetched ==
    [][/\ \A key \in Keys :
            /\ (CallOf(key) /\ cfg_last'.hit) => Unexpired(key)
            /\ (CallOf(key) /\ Expired(key)) =>
                  /\ ~cfg_last'.hit
                  /\ _cache'[key] = NoEntry
                  /\ _cache_misses' = _cache_misses + 1
                  /\ cache_hits' = cache_hits
                  /\ \E t \in ConfigTasks :
                        /\ cfg_pc[t] = "idle"
                        /\ cfg_pc'[t] = "fetching"
                        /\ cfg_key'[t] = key
                        /\ cfg_stale'[t] = _cache[key].value
       /\ cfg_last'.op = "http_response" =>
            /\ cfg_last'.result.type \in {"return", "ConfigurationError"}
            /\ cfg_last'.result.type = "return" =>
                  LET key == cfg_last'.key
                      fresh == ConfigurationValue(served[key], now) IN
                  /\ cfg_last'.result.value = fresh
                  /\ _cache'[key] = CacheEntry(fresh, now + _cache_ttl)
                  /\ cfg_last'.result.value # cfg_last'.stale]_vars

\* a call that found an expired entry has returned a value of the service
\* that differs from the one the expired entry held, and that value is cached
C20_Witness ==
    /\ cfg_last.op = "http_response"
    /\ cfg_last.result.type = "return"
    /\ cfg_last.stale # NoValue
    /\ cfg_last.stale.value # cfg_last.result.value.value
    /\ _cache[cfg_last.key].value = cfg_last.result.value
    /\ _cache[cfg_last.key].expires_at = now + _cache_ttl

\* the coroutines whose HTTP request for key is in flight
Fetching(key) == {t \in ConfigTasks : cfg_pc[t] = "fetching" /\ cfg_key[t] = key}

\* C21: get_configuration calls issued concurrently for the same uncached
\* key share one HTTP request: at no time are two requests for one key in
\* flight.
C21_SingleRequestPerKey ==
    \A key \in Keys : Cardinality(Fetching(key)) <= 1

-----------------------------------------------------------------------------
(* Properties of the metrics adapter, checked under SpecProm *)

\* the collectors of a kind that were created and registered
CreatedFor(kind) == {i \in 1..Len(registered) : registered[i] = kind}

\* C22: for each metric name at most one collector is ever created and
\* registered; once stored it is the one the dict holds and the one every
\* thread past _get_or_create_X works on; and it has received every update
\* of the calls completed for that name, whatever the interleaving of the
\* threads.
C22_CollectorCreatedOnce ==
    \A kind \in Kinds :
        LET name == MetricName(kind)
            dict == collectors(kind)
            made == CreatedFor(kind) IN
        /\ Cardinality(made) <= 1
        /\ (name \in DOMAIN dict) => dict[name] \in made
        /\ \A th \in Threads :
              (prom_thread[th].kind = kind /\ prom_thread[th].got # 0) =>
                  prom_thread[th].got \in made
        /\ prom_done[kind] > 0 => name \in DOMAIN dict
        /\ \A i \in made : updates[i] = prom_done[kind]

\* two threads called inc_counter for the new name at the same time: both
\* missed the fast path, one created the counter and has incremented it, the
\* other holds the lock and is about to find the counter in its double check
C22_Witness ==
    \E th \in Threads :
        /\ prom_thread[th].pc = "locked"
        /\ prom_thread[th].kind = "counter"
        /\ MetricName("counter") \in DOMAIN _counters
        /\ prom_done["counter"] = 1
        /\ Cardinality(CreatedFor("counter")) = 1

-----------------------------------------------------------------------------
(* Further properties of the circuit breaker, checked under SpecCB *)

\* C23: every step that changes the breaker state is CLOSED->OPEN by a
\* failure that brings failure_count to the threshold or more, OPEN->HALF_OPEN
\* by a call admitted recovery_timeout or more after last_failure_time,
\* HALF_OPEN->CLOSED by a success, or HALF_OPEN->OPEN by a failure; so no
\* step goes from OPEN to CLOSED or from CLOSED to HALF_OPEN.
C23_OnlyFourTransitions ==
    [][state' # state =>
          \/ /\ state = CLOSED /\ state' = OPEN
             /\ last'.op = "failure"
             /\ failure_count' = failure_count + 1
             /\ failure_count' >= failure_threshold
          \/ /\ state = OPEN /\ state' = HALF_OPEN
             /\ last'.op = "admit"
             /\ last_failure_time # None
             /\ now - last_failure_time >= recovery_timeout
          \/ /\ state = HALF_OPEN /\ state' = CLOSED
             /\ last'.op = "success"
          \/ /\ state = HALF_OPEN /\ state' = OPEN
             /\ last'.op = "failure"]_vars

\* the trial call failed and re-opened the breaker while another call,
\* admitted earlier, is still in flight
C23_Witness ==
    /\ last.op = "failure"
    /\ last.from = HALF_OPEN
    /\ state = OPEN
    /\ \E t \in Tasks : cb_pc[t] = "awaiting" /\ cb_admit[t] = CLOSED

-----------------------------------------------------------------------------
(* Further properties of the request pipeline *)

\* the step is a _make_request that the OPEN breaker rejects
RejectedByBreaker ==
    /\ _total_requests' = _total_requests + 1
    /\ call_rejects
    /\ rq_last'.entered
    /\ rq_last'.out.type = "ServiceCommunicationError"

\* C24: a _make_request rejected by the OPEN breaker leaves the monitor's
\* total_requests, successful_requests, failed_requests and total_duration
\* as they were.
C24_RejectionNotRecorded ==
    [][RejectedByBreaker => UNCHANGED pmVars]_vars

-----------------------------------------------------------------------------
(* Further properties of the client manager, checked under SpecMgr *)

\* C26: whenever a call of the manager's cleanup() has ended, it has called
\* cleanup() on every client that was registered when it was called, also
\* when the close() of one of them raised.
C26_EveryClientCleaned ==
    CleanupEnded => mgr_last.uncleaned = {}

\* the coroutines that start a discovery lookup in this step
StartLookup == {t \in GetTasks : get_pc[t] = "idle" /\ get_pc'[t] = "resolving"}

\* the step is a get_X_client call that runs to its return at once
DirectGet ==
    /\ mgr_last'.op = "get"
    /\ get_pc[mgr_last'.task] = "idle"

\* C27: a discovery lookup is started only by a get_X_client call that finds
\* no client for its service in the registry, made with use_fallback false
\* on a manager that has a discovery collaborator; a call that finds a
\* client in the registry starts no lookup and leaves the registry as it is,
\* and a call with use_fallback true starts no lookup.
C27_LookupOnlyOnMiss ==
    [][/\ \A t \in StartLookup :
             /\ ~registry_has(get_service'[t])
             /\ ~get_use_fallback'[t]
             /\ service_discovery
       /\ (DirectGet /\ registry_has(mgr_last'.service)) =>
             /\ StartLookup = {}
             /\ ~mgr_last'.constructed
             /\ _clients' = _clients
       /\ (DirectGet /\ mgr_last'.asked.use_fallback) => StartLookup = {}
      ]_vars

\* on a manager with discovery whose registry holds a client of each
\* service, a call found its client in the registry and returned it; no
\* lookup is in progress
C27_Witness ==
    /\ service_discovery
    /\ mgr_last.op = "get"
    /\ ~mgr_last.constructed
    /\ mgr_last.client = registry_get(mgr_last.service)
    /\ Len(_clients) = 2
    /\ Resolving = {}

-----------------------------------------------------------------------------
(* Properties of the read operations, checked under SpecRead *)

MonitorRead ==
    reader.op = "PerformanceMonitor.get_metrics" /\ Len(_request_history) > 0

\* a manager's statistics have been read after it stored a client
ManagerRead ==
    reader.op = "InterServiceClientManager.get_manager_stats" /\ Len(_clients) > 0

-----------------------------------------------------------------------------
(* Further properties of the performance monitor, checked under SpecPM *)

\* the counts, the average, the maximum and the throughput of a snapshot are 0
ZeroButMin(metrics) ==
    /\ metrics.total_requests = 0
    /\ metrics.successful_requests = 0
    /\ metrics.failed_requests = 0
    /\ metrics.average_response_time.num = 0
    /\ metrics.max_response_time = 0
    /\ metrics.throughput_per_second.num = 0

\* C29: get_recent_metrics(seconds) returns an all-zero snapshot when no window
\* entry has timestamp >= now - seconds, also on a fresh or reset monitor:
\* total, successful and failed counts, average, min and max response time
\* and throughput are all 0
C29_EmptyRecentAllZero ==
    \A seconds \in RecentPeriods :
        recent_requests(seconds) = <<>> =>
            /\ ZeroButMin(get_recent_metrics(seconds))
            /\ get_recent_metrics(seconds).min_response_time = 0

\* what does hold of the snapshot: every field but the minimum is 0, and the
\* minimum is the dataclass default, infinity
EmptyRecentIsDefault ==
    \A seconds \in RecentPeriods :
        recent_requests(seconds) = <<>> =>
            /\ ZeroButMin(get_recent_metrics(seconds))
            /\ get_recent_metrics(seconds).min_response_time = Infinity

\* a monitor whose window holds entries, all of them older than the period
AllEntriesOld ==
    /\ _request_history # <<>>
    /\ recent_requests(PMTickStep) = <<>>

\* the fields of a monitor as PerformanceMonitor.__init__ leaves them
NewMonitor ==
    [_request_history |-> <<>>, _throughput_window |-> <<>>,
     _total_requests |-> 0, _successful_requests |-> 0, _failed_requests |-> 0,
     _total_duration |-> 0, _min_duration |-> Infinity, _max_duration |-> 0,
     _last_request_time |-> None]

\* the fields of a monitor with window size `size` after record_request has
\* recorded req
Recorded(m, size, req) ==
    [_request_history |-> deque_append(m._request_history, size, req),
     _throughput_window |->
        popleft_while_older(
            deque_append(m._throughput_window, THROUGHPUT_WINDOW_MAXLEN,
                         req.timestamp),
            req.timestamp - THROUGHPUT_PERIOD),
     _total_requests |-> m._total_requests + 1,
     _successful_requests |->
        m._successful_requests + (IF req.success THEN 1 ELSE 0),
     _failed_requests |-> m._failed_requests + (IF req.success THEN 0 ELSE 1),
     _total_duration |-> m._total_duration + req.duration,
     _min_duration |-> IF req.duration < m._min_duration THEN req.duration
                       ELSE m._min_duration,
     _max_duration |-> IF req.duration > m._max_duration THEN req.duration
                       ELSE m._max_duration,
     _last_request_time |-> req.timestamp]

RECURSIVE OnNewMonitor(_, _)
\* the fields of a new monitor with window size `size` after the calls of
\* record_request in `calls`, made at the times they carry
OnNewMonitor(size, calls) ==
    IF calls = <<>> THEN NewMonitor
    ELSE Recorded(OnNewMonitor(size, SubSeq(calls, 1, Len(calls) - 1)), size,
                  calls[Len(calls)])

\* the fields of the monitor
MonitorFields ==
    [_request_history |-> _request_history,
     _throughput_window |-> _throughput_window,
     _total_requests |-> pm_total_requests,
     _successful_requests |-> pm_successful_requests,
     _failed_requests |-> pm_failed_requests,
     _total_duration |-> pm_total_duration,
     _min_duration |-> _min_duration, _max_duration |-> _max_duration,
     _last_request_time |-> pm_last_request_time]

\* get_operation_metrics: the operations that have an entry in its result
operation_groups ==
    {_request_history[i].operation : i \in 1..Len(_request_history)}

\* what get_metrics, get_recent_metrics, get_operation_metrics and
\* get_health_status return on a new monitor
NewMonitorReads ==
    /\ get_metrics =
          [PerformanceMetrics EXCEPT
              !.min_response_time = 0,
              !.throughput_per_second = [num |-> 0, den |-> THROUGHPUT_PERIOD]]
    /\ \A seconds \in RecentPeriods :
          get_recent_metrics(seconds) = PerformanceMetrics
    /\ operation_groups = {}
    /\ get_health_status =
          [status |-> "healthy", success_rate |-> [num |-> 1, den |-> 1],
           average_response_time |-> [num |-> 0, den |-> 1],
           throughput |-> [num |-> 0, den |-> 1], total_requests |-> 0]

\* a monitor that was never reset is a new monitor that has recorded the
\* calls made so far, and reads as NewMonitorReads says before the first call
NeverResetIsNew ==
    /\ ~pm_last.was_reset =>
          MonitorFields = OnNewMonitor(window_size, pm_recorded)
    /\ (~pm_last.was_reset /\ pm_recorded = <<>>) => NewMonitorReads

\* C30: after reset_metrics() the monitor is observationally equal to a newly
\* constructed one: get_metrics, get_recent_metrics, get_operation_metrics and
\* get_health_status return what a new monitor returns, and after any later
\* sequence of record_request calls the monitor is in the state a new monitor
\* is in after the same calls, so that every result is the same
C30_ResetEqualsNew ==
    /\ pm_last.op = "reset" => NewMonitorReads
    /\ pm_last.was_reset =>
          MonitorFields = OnNewMonitor(window_size, pm_recorded)

\* a monitor that was reset has since recorded more requests than its window
\* holds, the clock having moved on in between
C30_Witness ==
    /\ pm_last.was_reset
    /\ Len(pm_recorded) > window_size
    /\ \E i \in 1..Len(pm_recorded) : pm_recorded[i].timestamp < now

-----------------------------------------------------------------------------
(* Properties of the breaker in use without end, checked under SpecLive *)

\* from some moment on no unit of work fails
WorkSucceedsInTheEnd == <>[](last.op # "failure")

\* C31: the breaker has no terminal state: from every reachable state, if
\* time keeps advancing, calls keep being issued and units of work succeed
\* in the end, the breaker returns to CLOSED (an OPEN breaker goes HALF_OPEN
\* on the first call made recovery_timeout or more after the last failure,
\* and CLOSED when a call then succeeds)
C31_NoTerminalState ==
    WorkSucceedsInTheEnd => <>[](state = CLOSED)

\* a breaker of the highest threshold closed again, on a success met in
\* HALF_OPEN, recovery_timeout > 0 after it opened
C31_Witness ==
    /\ state = CLOSED
    /\ last.op = "success"
    /\ last.from = HALF_OPEN
    /\ failure_threshold = MaxThreshold
    /\ failed_calls > 0
    /\ recovery_timeout > 0
    /\ now = MaxTime

\* without the condition on the units of work the breaker need not close
LiveUnconditional == []<>(state = CLOSED)

-----------------------------------------------------------------------------
(* Invariants of the circuit breaker, checked under SpecCB *)

\* C32: in every reachable state, for failure_threshold >= 1 and under any
\* interleaving of concurrent calls, state = CLOSED if and only if
\* failure_count < failure_threshold; failure_count >= failure_threshold
\* throughout OPEN and HALF_OPEN
C32_ClosedIffBelowThreshold ==
    (state = CLOSED) <=> (failure_count < failure_threshold)

\* a HALF_OPEN breaker with two calls in flight and failure_count past the
\* threshold
C32_Witness ==
    /\ state = HALF_OPEN
    /\ failure_count > failure_threshold
    /\ \A t \in Tasks : cb_pc[t] = "awaiting"

\* a CLOSED breaker that has counted a failure since it closed again
ClosedWithFailures ==
    /\ state = CLOSED
    /\ failure_count > 0
    /\ failed_calls > failure_count

\* the calls whose unit of work is still in flight
InFlight == {t \in Tasks : cb_pc[t] = "awaiting"}

\* C33: in every reachable state of the breaker, total_calls -
\* (successful_calls + failed_calls) equals the number of calls rejected
\* while OPEN plus the number of calls whose unit of work is still in flight;
\* successful_calls + failed_calls never exceeds total_calls, and none of the
\* three counters ever decreases
C33_CallsAccountedFor ==
    /\ [](/\ total_calls - (successful_calls + failed_calls)
               = rejected + Cardinality(InFlight)
          /\ successful_calls + failed_calls <= total_calls)
    /\ [][/\ total_calls' >= total_calls
          /\ successful_calls' >= successful_calls
          /\ failed_calls' >= failed_calls]_vars

\* a call has been rejected while another, admitted before the breaker
\* opened, is still in flight, and calls of both outcomes have completed
C33_Witness ==
    /\ rejected > 0
    /\ InFlight # {}
    /\ successful_calls > 0
    /\ failed_calls > 0
    /\ state = OPEN

\* C34: the breaker goes HALF_OPEN -> CLOSED only on the success of a call
\* that was admitted as a recovery trial (the call that moved it OPEN ->
\* HALF_OPEN, or one admitted while HALF_OPEN): the success of a call admitted
\* earlier, while the breaker was still CLOSED, that completes while the
\* breaker is HALF_OPEN does not close the breaker or reset failure_count
C34_OnlyTrialSuccessCloses ==
    [][ /\ (state = HALF_OPEN /\ state' = CLOSED
              => /\ last'.op = "success"
                 /\ cb_admit[last'.task] \in {"trial", HALF_OPEN})
        /\ (last'.op = "success" /\ cb_admit[last'.task] = CLOSED
              /\ state = HALF_OPEN
              => state' = HALF_OPEN /\ failure_count' = failure_count) ]_vars

\* what does hold: whichever call succeeds while the breaker is HALF_OPEN
\* closes it
AnySuccessCloses ==
    [][ (state = HALF_OPEN /\ state' = CLOSED) <=>
        (state = HALF_OPEN /\ last'.op = "success") ]_vars

\* C35: while the breaker is CLOSED a successful call leaves failure_count
\* unchanged: failure_count is reset to 0 only on the HALF_OPEN -> CLOSED
\* transition, so failure_threshold failures interleaved with any number of
\* successes open the breaker just as consecutive failures do
C35_SuccessKeepsFailureCount ==
    [][ /\ (last'.op = "success" /\ state = CLOSED
              => failure_count' = failure_count /\ state' = CLOSED)
        /\ (failure_count' # failure_count /\ failure_count' = 0
              => state = HALF_OPEN /\ state' = CLOSED)
        /\ (failure_count' < failure_count => failure_count' = 0)
        /\ (last'.op = "failure" /\ failure_count' >= failure_threshold
              => state' = OPEN) ]_vars

\* the breaker opened from CLOSED on a failure that followed a success: the
\* failures counted up to the threshold were not consecutive
C35_Witness ==
    /\ state = OPEN
    /\ last.op = "failure"
    /\ last.from = CLOSED
    /\ failure_count = failure_threshold
    /\ consec < failure_threshold
    /\ successful_calls > 0
    /\ rejected = 0

\* C36: a call rejected because the breaker is OPEN changes only total_calls:
\* state, failure_count, failed_calls, successful_calls, last_failure_time and
\* last_success_time are unchanged, so rejected calls never postpone the
\* moment at which the breaker becomes eligible for HALF_OPEN
C36_RejectionCountsOnly ==
    [][ last'.op = "reject"
          => /\ total_calls' = total_calls + 1
             /\ UNCHANGED <<state, failure_count, failed_calls,
                            successful_calls, last_failure_time,
                            last_success_time>> ]_vars

\* a call is admitted as the recovery trial exactly recovery_timeout after
\* the last failure, although calls were rejected in between
C36_Witness ==
    /\ last.op = "admit"
    /\ last.from = OPEN
    /\ rejected > 0
    /\ recovery_timeout > 0
    /\ now - last_failure_time = recovery_timeout
    /\ state = HALF_OPEN

-----------------------------------------------------------------------------
(* Invariants of the request pipeline, checked under SpecClient *)

\* the _make_request invocations awaiting the breaker call
AwaitingBreakerCall == {t \in RequestTasks : rq_pc[t] = "awaiting"}

\* C37: for every client, in every reachable state and under any interleaving
\* of concurrent requests, _total_requests = _successful_requests +
\* _failed_requests + the number of _make_request invocations still awaiting
\* the breaker call, and the PerformanceMonitor has recorded exactly one
\* RequestMetric per completed request: its lifetime total_requests =
\* _successful_requests + _failed_requests
C37_RequestsAccountedFor ==
    /\ _total_requests = _successful_requests + _failed_requests
                           + Cardinality(AwaitingBreakerCall)
    /\ pm_total_requests = _successful_requests + _failed_requests
    /\ pm_successful_requests = _successful_requests
    /\ pm_failed_requests = _failed_requests

\* two requests are in flight after requests of both outcomes have completed
C37_Witness ==
    /\ Cardinality(AwaitingBreakerCall) = 2
    /\ _successful_requests > 0
    /\ _failed_requests > 0

\* the invocation that just ended was refused by connect()
ConnectFailed ==
    /\ rq_last.entered
    /\ rq_last.out.type = "ServiceCommunicationError"
    /\ rq_last.out.message = "Failed to connect"

\* C38: if connect() fails inside _make_request, the ServiceCommunicationError
\* is raised before any bookkeeping: the client's _total_requests,
\* _successful_requests, _failed_requests and _last_request_time, the
\* breaker's state and counters, and the PerformanceMonitor's data are all
\* unchanged, and the client remains not connected
C38_ConnectFailureBeforeBookkeeping ==
    [][ ConnectFailed'
          => /\ UNCHANGED <<_total_requests, _successful_requests,
                            _failed_requests, _last_request_time>>
             /\ UNCHANGED <<cbVars, pmVars, pmWinVars>>
             /\ ~is_connected /\ ~is_connected' ]_vars

\* connect() refused a request of a client that had served requests before
\* and was cleaned up since
C38_Witness ==
    /\ ConnectFailed
    /\ _total_requests > 0
    /\ _failed_requests > 0
    /\ ~is_connected

-----------------------------------------------------------------------------
(* Further properties of the client manager under concurrent registration,   *)
(* checked under SpecMgr                                                     *)

\* cleanup() is suspended inside a registered client's cleanup() and a
\* get_X_client call has registered a client under a new key since
RegisteredDuringCleanup ==
    mgr_cleanup_pc = "closing" /\ Len(_clients) > iter_size

\* cleanup() goes on after the client's cleanup() has ended
CleanupResumes ==
    /\ mgr_cleanup_pc = "closing"
    /\ mgr_last'.op \in {"cleanup_suspend", "cleanup_completed",
                         "cleanup_RuntimeError"}

\* C39: if a get_X_client call registers a new client while the manager's
\* cleanup() is suspended inside a registered client's cleanup(), then
\* cleanup() still completes without raising, and when it returns the
\* registry is empty and initialized is false
C39_CleanupSurvivesRegistration ==
    [][ RegisteredDuringCleanup /\ CleanupResumes
          => /\ mgr_last'.op # "cleanup_RuntimeError"
             /\ (mgr_cleanup_pc' = "idle"
                   => _clients' = <<>> /\ ~_initialized') ]_vars

\* what does hold: the resumed cleanup() raises RuntimeError and leaves the
\* registry and initialized as they are
RegistrationBreaksCleanup ==
    [][ RegisteredDuringCleanup /\ CleanupResumes
          => /\ mgr_last'.op = "cleanup_RuntimeError"
             /\ UNCHANGED <<_clients, _initialized>> ]_vars

\* a cleanup() met with a new key has just raised
CleanupRaised ==
    mgr_last.op = "cleanup_RuntimeError" /\ Len(_clients) > 1

-----------------------------------------------------------------------------
(* Failing fetches of the configuration client, checked under SpecConfig *)

\* the step is the end of a get_configuration whose HTTP exchange failed
FetchFails ==
    /\ cfg_last'.op = "http_response"
    /\ cfg_last'.result.type # "return"
    /\ \E t \in ConfigTasks : cfg_pc[t] = "fetching" /\ cfg_pc'[t] = "idle"

\* the step is a get_configuration that misses the cache and goes to fetch
Misses ==
    /\ cfg_last'.op = "get_configuration"
    /\ ~cfg_last'.hit
    /\ \E t \in ConfigTasks : cfg_pc[t] = "idle" /\ cfg_pc'[t] = "fetching"

\* C40 as stated: when get_configuration(key) fails (404, other non-200
\* status, timeout, transport error, or a payload that does not validate), it
\* raises a ConfigurationError, the cache contents and cache_hits are
\* unchanged by the call, and the attempt is counted as exactly one cache
\* miss; a later call for the same key fetches again
C40_Original ==
    [][ /\ (Misses => /\ _cache_misses' = _cache_misses + 1
                      /\ cache_hits' = cache_hits
                      /\ _cache' = _cache)
        /\ (FetchFails => /\ cfg_last'.result.type = "ConfigurationError"
                          /\ UNCHANGED <<_cache, cache_hits, _cache_misses>>)
        /\ (cfg_last'.op = "get_configuration" /\ _cache[cfg_last'.key] = NoEntry
              => Misses) ]_vars

\* C40 amended: as above, except that the call removes the entry of its key
\* from the cache when it finds it expired; every other entry, and cache_hits,
\* are unchanged, and nothing is cached for the key by the failure
C40_FailedFetchKeepsCache ==
    [][ /\ (Misses => /\ _cache_misses' = _cache_misses + 1
                      /\ cache_hits' = cache_hits
                      /\ _cache' = [_cache EXCEPT ![cfg_last'.key] = NoEntry]
                      /\ (_cache[cfg_last'.key] # NoEntry
                            => cache_expired(_cache[cfg_last'.key], now)))
        /\ (FetchFails => /\ cfg_last'.result.type = "ConfigurationError"
                          /\ UNCHANGED <<_cache, cache_hits, _cache_misses>>)
        /\ (cfg_last'.op = "get_configuration" /\ _cache[cfg_last'.key] = NoEntry
              => Misses) ]_vars

\* a fetch has failed for a key whose expired entry the call had removed, and
\* the key is still not cached
C40_Witness ==
    /\ cfg_last.op = "http_response"
    /\ cfg_last.result.type = "ConfigurationError"
    /\ cfg_last.stale # NoValue
    /\ _cache[cfg_last.key] = NoEntry
    /\ _cache_misses > 1
====
